---- MODULE Spec2Model ----
(***************************************************************************)
(* Scheduling kernel of Rewind: the Redis-backed task buffer               *)
(* (models/task.py, engine/task_buffer.py), the short-term scheduler       *)
(* (engine/sts.py), the swap engine (engine/mts.py), the daily planner     *)
(* (engine/lts.py) and the relay handlers of server.py that drive them.    *)
(*                                                                         *)
(* Time is a clock of whole hours.  Scores that the code computes as       *)
(* floats are kept as exact integers in sixtieths (deadline_urgency 10.0   *)
(* is 600).  A deadline or preferred_start of 0 is the empty string (not   *)
(* set); any other value is the hour on the clock at which it falls.       *)
(***************************************************************************)
EXTENDS Integers, Sequences, FiniteSets, TLC

VARIABLES now, tasks, backlog, active, buckets, sts, energy, minted, last, steps, gw, sn, wr, relay, em

vars == <<now, tasks, backlog, active, buckets, sts, energy, minted, last, steps, gw, sn, wr, relay, em>>

(* ---------------------------------------------------------------------- *)
(* Bounds of the model                                                     *)
(* ---------------------------------------------------------------------- *)
MaxNow == 1
MaxQueue == 3
MaxSteps == 5

(* ---------------------------------------------------------------------- *)
(* Program constants                                                       *)
(* ---------------------------------------------------------------------- *)
BUCKET_COUNT == 16
StartHour == 8
PeakHours == {9, 10, 14, 15}
InitialEnergy == 3

BACKLOG == "backlog"
ACTIVE == "active"
IN_PROGRESS == "in_progress"
COMPLETED == "completed"
SWAPPED_OUT == "swapped_out"
DELEGATED == "delegated"

TaskStatus == {BACKLOG, ACTIVE, IN_PROGRESS, COMPLETED, SWAPPED_OUT, DELEGATED}

Priority == 0..3

(* ---------------------------------------------------------------------- *)
(* Generic helpers                                                         *)
(* ---------------------------------------------------------------------- *)
Min(a, b) == IF a < b THEN a ELSE b
Max(a, b) == IF a > b THEN a ELSE b

RECURSIVE SeqSum(_)
SeqSum(s) == IF s = <<>> THEN 0 ELSE Head(s) + SeqSum(Tail(s))

\* every order in which the members of a set can be returned
Orders(S) == {f \in [1..Cardinality(S) -> S] : \A i, j \in 1..Cardinality(S) : i # j => f[i] # f[j]}

\* list.sort(key=...): stable, ascending; s is a sequence of <<key, element>>
InsertSorted(sorted, p) ==
    LET c == Cardinality({i \in 1..Len(sorted) : sorted[i][1] <= p[1]})
    IN SubSeq(sorted, 1, c) \o <<p>> \o SubSeq(sorted, c + 1, Len(sorted))

RECURSIVE StableSort(_)
StableSort(s) ==
    IF Len(s) <= 1 THEN s
    ELSE InsertSorted(StableSort(SubSeq(s, 1, Len(s) - 1)), s[Len(s)])

\* sort the sequence s by the integer keys k (k[i] is the key of s[i])
SortBy(s, k) ==
    LET sorted == StableSort([i \in 1..Len(s) |-> <<k[i], s[i]>>])
    IN [i \in 1..Len(s) |-> sorted[i][2]]

(* ---------------------------------------------------------------------- *)
(* Task (models/task.py)                                                   *)
(* ---------------------------------------------------------------------- *)
MkTask(id, p, ec, dur, dl, ps, st, cl) ==
    [task_id |-> id, priority |-> p, energy_cost |-> ec,
     estimated_duration |-> dur, deadline |-> dl, preferred_start |-> ps,
     status |-> st, cognitive_load |-> cl]

NoTask == MkTask("none", 0, 0, 0, 0, 0, "none", 0)

CurrentHour == (StartHour + now) % 24

\* min(10, 10 / max(hours, 0.1)) in sixtieths, for a whole number of hours
InverseHours(h) == IF h <= 1 THEN 600 ELSE 600 \div h

deadline_urgency(t) ==
    IF t.deadline = 0 THEN 0 ELSE InverseHours(t.deadline - now)

execution_time_score(t) ==
    Min(600, 6000 \div Max(t.estimated_duration, 1))

preferred_start_score(t) ==
    IF t.preferred_start = 0 THEN 300
    ELSE IF t.preferred_start - now <= 0 THEN 600
    ELSE InverseHours(t.preferred_start - now)

bucket(t) ==
    ((45 * deadline_urgency(t) + 30 * execution_time_score(t)
        + 25 * preferred_start_score(t)) \div 6000) % BUCKET_COUNT

(* ---------------------------------------------------------------------- *)
(* The Redis keys: task:<id> hashes, task:backlog, task:active, bucket:<n> *)
(* A store is the record of the four.                                      *)
(* ---------------------------------------------------------------------- *)
\* wr is the to_redis call in progress in a writing process: the command it
\* issues next, the task it writes and the status stored before it began
NoWrite == [pc |-> "idle", task |-> NoTask, old_status |-> "none"]

Store == [tasks |-> tasks, backlog |-> backlog, active |-> active, buckets |-> buckets]

to_redis(s, t) ==
    [tasks |-> [x \in DOMAIN s.tasks \cup {t.task_id} |->
                    IF x = t.task_id THEN t ELSE s.tasks[x]],
     buckets |-> [s.buckets EXCEPT ![bucket(t)] = @ \cup {t.task_id}],
     backlog |-> IF t.status = BACKLOG THEN s.backlog \cup {t.task_id}
                 ELSE IF t.status \in {ACTIVE, IN_PROGRESS} THEN s.backlog \ {t.task_id}
                 ELSE s.backlog,
     active |-> IF t.status = BACKLOG THEN s.active \ {t.task_id}
                ELSE IF t.status \in {ACTIVE, IN_PROGRESS} THEN s.active \cup {t.task_id}
                ELSE s.active]

store_task(s, t) == to_redis(s, t)

RECURSIVE store_all(_, _)
store_all(s, ts) ==
    IF ts = <<>> THEN s ELSE store_all(store_task(s, Head(ts)), Tail(ts))

delete_from_redis(s, id) ==
    [tasks |-> [x \in DOMAIN s.tasks \ {id} |-> s.tasks[x]],
     backlog |-> s.backlog \ {id},
     active |-> s.active \ {id},
     buckets |-> [b \in DOMAIN s.buckets |-> s.buckets[b] \ {id}]]

from_redis(s, id) == IF id \in DOMAIN s.tasks THEN s.tasks[id] ELSE NoTask

(* ---------------------------------------------------------------------- *)
(* heapq (the binary heap the STS queues are kept in); positions from 1    *)
(* ---------------------------------------------------------------------- *)
RECURSIVE siftdown(_, _, _, _)
siftdown(heap, startpos, pos, newitem) ==
    IF pos > startpos /\ newitem.sort_key < heap[pos \div 2].sort_key
    THEN siftdown([heap EXCEPT ![pos] = heap[pos \div 2]], startpos, pos \div 2, newitem)
    ELSE [heap EXCEPT ![pos] = newitem]

RECURSIVE siftup(_, _, _)
siftup(heap, pos, newitem) ==
    LET childpos == 2 * pos
        rightpos == childpos + 1
        c == IF rightpos <= Len(heap) /\ ~(heap[childpos].sort_key < heap[rightpos].sort_key)
             THEN rightpos ELSE childpos
    IN IF childpos <= Len(heap)
       THEN siftup([heap EXCEPT ![pos] = heap[c]], c, newitem)
       ELSE siftdown([heap EXCEPT ![pos] = newitem], 1, pos, newitem)

heappush(heap, item) == siftdown(Append(heap, item), 1, Len(heap) + 1, item)

\* <<popped entry, remaining heap>>; the heap is not empty
heappop(heap) ==
    LET lastelt == heap[Len(heap)]
        rest == SubSeq(heap, 1, Len(heap) - 1)
    IN IF rest = <<>> THEN <<lastelt, rest>>
       ELSE <<rest[1], siftup(rest, 1, lastelt)>>

RECURSIVE push_all(_, _)
push_all(heap, items) ==
    IF items = <<>> THEN heap ELSE push_all(heappush(heap, Head(items)), Tail(items))

(* ---------------------------------------------------------------------- *)
(* ShortTermScheduler (engine/sts.py)                                      *)
(* ---------------------------------------------------------------------- *)
NewSTS == [queues |-> [p \in Priority |-> <<>>], current |-> NoTask, delegation_queue |-> {}]

QueueEntry(k, t) == [sort_key |-> k, task |-> t]

classify_priority(t) ==
    IF t.priority # 2 THEN t.priority
    ELSE IF t.deadline # 0 /\ t.deadline - now <= 2 THEN 0
    ELSE IF t.deadline # 0 /\ t.deadline - now <= 24 THEN 1
    ELSE IF t.cognitive_load <= 1 /\ t.energy_cost <= 1 THEN 3
    ELSE t.priority

\* the task object as enqueue leaves it: task.priority = priority
classified(t) == [t EXCEPT !.priority = classify_priority(t)]

enqueue(s, t) ==
    LET p == classify_priority(t)
    IN [s EXCEPT !.queues[p] = heappush(@, QueueEntry(0 - deadline_urgency(t), classified(t)))]

RECURSIVE enqueue_batch(_, _)
enqueue_batch(s, ts) ==
    IF ts = <<>> THEN s ELSE enqueue_batch(enqueue(s, Head(ts)), Tail(ts))

\* one class of dequeue without the energy test: the first entry popped is taken
RECURSIVE dequeue_class_any_cost(_, _, _)
dequeue_class_any_cost(queue, skipped, energy_level) ==
    IF queue = <<>> THEN <<NoTask, push_all(queue, skipped)>>
    ELSE LET popped == heappop(queue)
         IN <<popped[1].task, push_all(popped[2], skipped)>>

\* one priority class of dequeue: <<result or NoTask, queue afterwards>>
RECURSIVE dequeue_class(_, _, _)
dequeue_class(queue, skipped, energy_level) ==
    IF queue = <<>> THEN <<NoTask, push_all(queue, skipped)>>
    ELSE LET popped == heappop(queue)
         IN IF popped[1].task.energy_cost <= energy_level
            THEN <<popped[1].task, push_all(popped[2], skipped)>>
            ELSE dequeue_class(popped[2], Append(skipped, popped[1]), energy_level)

\* <<result or NoTask, scheduler afterwards>>
RECURSIVE dequeue_from(_, _, _)
dequeue_from(s, p, energy_level) ==
    IF p > 3 THEN <<NoTask, s>>
    ELSE LET d == dequeue_class(s.queues[p], <<>>, energy_level)
             s2 == [s EXCEPT !.queues[p] = d[2]]
         IN IF d[1] # NoTask THEN <<d[1], s2>>
            ELSE dequeue_from(s2, p + 1, energy_level)

dequeue(s, energy_level) == dequeue_from(s, 0, energy_level)

\* preempt with <= in place of < in the priority comparison
preempt_on_equal(s, urgent_task, energy_level) ==
    IF s.current = NoTask
    THEN <<NoTask, [s EXCEPT !.current = urgent_task]>>
    ELSE IF classify_priority(urgent_task) <= s.current.priority
    THEN LET preempted == [s.current EXCEPT !.status = ACTIVE]
         IN <<classified(preempted), [enqueue(s, preempted) EXCEPT !.current = urgent_task]>>
    ELSE <<NoTask, enqueue(s, urgent_task)>>

\* <<preempted task or NoTask, scheduler afterwards>>
preempt(s, urgent_task, energy_level) ==
    IF s.current = NoTask
    THEN <<NoTask, [s EXCEPT !.current = urgent_task]>>
    ELSE IF classify_priority(urgent_task) < s.current.priority
    THEN LET preempted == [s.current EXCEPT !.status = ACTIVE]
         IN <<classified(preempted), [enqueue(s, preempted) EXCEPT !.current = urgent_task]>>
    ELSE <<NoTask, enqueue(s, urgent_task)>>

set_current(s, t) == [s EXCEPT !.current = [t EXCEPT !.status = IN_PROGRESS]]

clear_current(s) == [s EXCEPT !.current = NoTask]

\* the drain that leaves the status of the popped tasks alone
RECURSIVE drain_p3_keeps_status(_, _)
drain_p3_keeps_status(queue, delegated) ==
    IF queue = <<>> THEN delegated
    ELSE LET popped == heappop(queue)
         IN drain_p3_keeps_status(popped[2], Append(delegated, popped[1].task))

\* <<delegated tasks in the order popped, scheduler afterwards>>
RECURSIVE drain_p3(_, _)
drain_p3(queue, delegated) ==
    IF queue = <<>> THEN delegated
    ELSE LET popped == heappop(queue)
         IN drain_p3(popped[2], Append(delegated, [popped[1].task EXCEPT !.status = DELEGATED]))

\* the drain that hands the tasks over and leaves them queued
auto_delegate_p3_keeps_queue(s, energy_level) ==
    IF energy_level > 2 THEN <<(<<>>), s>>
    ELSE LET delegated == drain_p3(s.queues[3], <<>>)
         IN <<delegated,
              [s EXCEPT !.delegation_queue = @ \cup {delegated[i].task_id : i \in 1..Len(delegated)}]>>

auto_delegate_p3(s, energy_level) ==
    IF energy_level > 2 THEN <<(<<>>), s>>
    ELSE LET delegated == drain_p3(s.queues[3], <<>>)
         IN <<delegated,
              [s EXCEPT !.queues[3] = <<>>,
                        !.delegation_queue = @ \cup {delegated[i].task_id : i \in 1..Len(delegated)}]>>

\* sorted(queue): entries of one class by sort_key, stable
sorted_entries(queue) == SortBy(queue, [i \in 1..Len(queue) |-> queue[i].sort_key])

get_ordered_schedule(s, energy_level) ==
    LET all == sorted_entries(s.queues[0]) \o sorted_entries(s.queues[1])
                 \o sorted_entries(s.queues[2]) \o sorted_entries(s.queues[3])
        ts == [i \in 1..Len(all) |-> all[i].task]
        fits(t) == t.energy_cost <= energy_level
        over(t) == t.energy_cost > energy_level
    IN SelectSeq(ts, fits) \o SelectSeq(ts, over)

reorder(s, ts) == enqueue_batch([s EXCEPT !.queues = [p \in Priority |-> <<>>]], ts)

total_count(s) == Len(s.queues[0]) + Len(s.queues[1]) + Len(s.queues[2]) + Len(s.queues[3])

(* ---------------------------------------------------------------------- *)
(* Task buffer queries (engine/task_buffer.py).  smembers returns a set in *)
(* no particular order, so a query has one result per order.               *)
(* ---------------------------------------------------------------------- *)
load_all(s, ids) ==
    LET found(i) == ids[i] \in DOMAIN s.tasks
        kept == SelectSeq([i \in 1..Len(ids) |-> i], found)
    IN [i \in 1..Len(kept) |-> s.tasks[ids[kept[i]]]]

get_bucket_tasks(s, b) == {load_all(s, o) : o \in Orders(s.buckets[b])}

get_backlog_tasks(s) ==
    LET is_backlog(t) == t.status = BACKLOG
    IN {SelectSeq(load_all(s, o), is_backlog) : o \in Orders(s.backlog)}

get_active_tasks(s) ==
    LET is_active(t) == t.status \in {ACTIVE, IN_PROGRESS}
    IN {SelectSeq(load_all(s, o), is_active) : o \in Orders(s.active)}

\* the tasks met while walking bucket 0, 1, ... in turn
RECURSIVE bucket_scans(_, _)
bucket_scans(s, b) ==
    IF b >= BUCKET_COUNT THEN {<<>>}
    ELSE {here \o rest : here \in get_bucket_tasks(s, b), rest \in bucket_scans(s, b + 1)}

\* the candidate filter without the energy test
find_swap_candidates_any_cost(s, available_minutes, energy_level, peak_hours) ==
    LET fits(t) == /\ t.status = BACKLOG
                   /\ ~(t.estimated_duration > available_minutes)
        by_urgency(c) == SortBy(c, [i \in 1..Len(c) |-> 0 - deadline_urgency(c[i])])
        by_load(c) == SortBy(c, [i \in 1..Len(c) |->
                          0 - (1000 * c[i].cognitive_load + deadline_urgency(c[i]))])
        ranked(c) == IF peak_hours # {} /\ CurrentHour \in peak_hours
                     THEN by_load(by_urgency(c)) ELSE by_urgency(c)
    IN {ranked(SelectSeq(scan, fits)) : scan \in bucket_scans(s, 0)}

find_swap_candidates(s, available_minutes, energy_level, peak_hours) ==
    LET fits(t) == /\ t.status = BACKLOG
                   /\ ~(t.estimated_duration > available_minutes)
                   /\ ~(t.energy_cost > energy_level)
        by_urgency(c) == SortBy(c, [i \in 1..Len(c) |-> 0 - deadline_urgency(c[i])])
        by_load(c) == SortBy(c, [i \in 1..Len(c) |->
                          0 - (1000 * c[i].cognitive_load + deadline_urgency(c[i]))])
        ranked(c) == IF peak_hours # {} /\ CurrentHour \in peak_hours
                     THEN by_load(by_urgency(c)) ELSE by_urgency(c)
    IN {ranked(SelectSeq(scan, fits)) : scan \in bucket_scans(s, 0)}

\* the accumulation stopping only once freed > minutes_needed
RECURSIVE accumulate_past(_, _, _, _)
accumulate_past(candidates, minutes_needed, freed, result) ==
    IF candidates = <<>> \/ freed > minutes_needed THEN result
    ELSE accumulate_past(Tail(candidates), minutes_needed,
                    freed + Head(candidates).estimated_duration,
                    Append(result, Head(candidates)))

\* the prefix of candidates taken until freed >= minutes_needed
RECURSIVE accumulate(_, _, _, _)
accumulate(candidates, minutes_needed, freed, result) ==
    IF candidates = <<>> \/ freed >= minutes_needed THEN result
    ELSE accumulate(Tail(candidates), minutes_needed,
                    freed + Head(candidates).estimated_duration,
                    Append(result, Head(candidates)))

find_swap_out_candidates(s, minutes_needed) ==
    LET only_active(t) == t.status = ACTIVE
        ordered(c) == SortBy(c, [i \in 1..Len(c) |->
                          1000 * (0 - c[i].priority) + deadline_urgency(c[i])])
    IN {accumulate(ordered(SelectSeq(a, only_active)), minutes_needed, 0, <<>>) :
            a \in get_active_tasks(s)}

(* ---------------------------------------------------------------------- *)
(* Swap engine (engine/mts.py).  An outcome is the store and the scheduler *)
(* after the call together with the SwapResult lists.                      *)
(* ---------------------------------------------------------------------- *)
Outcome(st, sch, si, so, dg) ==
    [store |-> st, sts |-> sch, swapped_in |-> si, swapped_out |-> so, delegated |-> dg]

RECURSIVE swap_in_loop(_, _, _, _, _)
swap_in_loop(candidates, remaining_minutes, st, sch, swapped_in) ==
    IF candidates = <<>> THEN Outcome(st, sch, swapped_in, <<>>, <<>>)
    ELSE LET task == [Head(candidates) EXCEPT !.status = ACTIVE]
         IN IF remaining_minutes < task.estimated_duration
            THEN swap_in_loop(Tail(candidates), remaining_minutes, st, sch, swapped_in)
            ELSE IF remaining_minutes - task.estimated_duration <= 0
            THEN Outcome(store_task(st, task), enqueue(sch, task),
                         Append(swapped_in, classified(task)), <<>>, <<>>)
            ELSE swap_in_loop(Tail(candidates), remaining_minutes - task.estimated_duration,
                              store_task(st, task), enqueue(sch, task),
                              Append(swapped_in, classified(task)))

handle_swap_in(st, sch, freed_minutes, energy_level, peak_hours) ==
    {swap_in_loop(c, freed_minutes, st, sch, <<>>) :
        c \in find_swap_candidates(st, freed_minutes, energy_level, peak_hours)}

handle_swap_out(st, sch, lost_minutes, energy_level) ==
    {LET swapped_out == [i \in 1..Len(c) |-> [c[i] EXCEPT !.status = SWAPPED_OUT]]
         st2 == store_all(st, swapped_out)
         d == IF energy_level <= 2 THEN auto_delegate_p3(sch, energy_level)
              ELSE <<(<<>>), sch>>
     IN Outcome(store_all(st2, d[1]), d[2], <<>>, swapped_out, d[1]) :
        c \in find_swap_out_candidates(st, lost_minutes)}

\* the dispatch with the sign test of the first branch inverted
handle_disruption_sign_swapped(st, sch, freed_minutes, energy_level, peak_hours) ==
    IF freed_minutes < 0
    THEN handle_swap_in(st, sch, 0 - freed_minutes, energy_level, peak_hours)
    ELSE IF freed_minutes > 0
    THEN handle_swap_out(st, sch, freed_minutes, energy_level)
    ELSE {Outcome(st, reorder(sch, a), <<>>, <<>>, <<>>) : a \in get_active_tasks(st)}

handle_disruption(st, sch, freed_minutes, energy_level, peak_hours) ==
    IF freed_minutes > 0
    THEN handle_swap_in(st, sch, freed_minutes, energy_level, peak_hours)
    ELSE IF freed_minutes < 0
    THEN handle_swap_out(st, sch, 0 - freed_minutes, energy_level)
    ELSE {Outcome(st, reorder(sch, a), <<>>, <<>>, <<>>) : a \in get_active_tasks(st)}

(* ---------------------------------------------------------------------- *)
(* Daily planner (engine/lts.py).  estimation_bias is given in halves      *)
(* (2 is 1.0); the score is kept in six-thousandths.                       *)
(* ---------------------------------------------------------------------- *)
priority_score(p) == IF p = 0 THEN 10 ELSE IF p = 1 THEN 7 ELSE IF p = 3 THEN 1 ELSE 4

\* is_peak is computed from the hour and peak_hours and then not read
peak_score(task, peak_hours) ==
    LET is_peak == CurrentHour \in peak_hours
    IN IF task.cognitive_load >= 4 THEN 8
       ELSE IF task.cognitive_load <= 2 THEN 3 ELSE 5

score_task(task, peak_hours) ==
    40 * deadline_urgency(task) + 30 * 60 * priority_score(task.priority)
      + 15 * 60 * peak_score(task, peak_hours) + 15 * execution_time_score(task)

\* the bin-packing loop testing only the minutes already used
RECURSIVE pack_ignoring_duration(_, _, _, _)
pack_ignoring_duration(scored, available_minutes, used_minutes, selected) ==
    IF scored = <<>> THEN selected
    ELSE IF used_minutes > available_minutes
    THEN pack_ignoring_duration(Tail(scored), available_minutes, used_minutes, selected)
    ELSE pack_ignoring_duration(Tail(scored), available_minutes,
              used_minutes + Head(scored).estimated_duration, Append(selected, Head(scored)))

\* the bin-packing loop: the tasks selected, in score order
RECURSIVE pack(_, _, _, _)
pack(scored, available_minutes, used_minutes, selected) ==
    IF scored = <<>> THEN selected
    ELSE IF used_minutes + Head(scored).estimated_duration > available_minutes
    THEN pack(Tail(scored), available_minutes, used_minutes, selected)
    ELSE pack(Tail(scored), available_minutes,
              used_minutes + Head(scored).estimated_duration, Append(selected, Head(scored)))

\* plan_day queueing the whole backlog instead of the selection
plan_day_queues_backlog(st, available_hours, peak_hours, estimation_bias) ==
    {IF bl = <<>> THEN [store |-> st, sts |-> NewSTS, selected |-> <<>>]
     ELSE LET biased == [i \in 1..Len(bl) |->
                  [bl[i] EXCEPT !.estimated_duration = (@ * estimation_bias) \div 2]]
              scored == SortBy(biased, [i \in 1..Len(biased) |->
                                          0 - score_task(biased[i], peak_hours)])
              packed == pack(scored, available_hours * 60, 0, <<>>)
              selected == [i \in 1..Len(packed) |-> [packed[i] EXCEPT !.status = ACTIVE]]
          IN [store |-> store_all(st, selected),
              sts |-> enqueue_batch(NewSTS, scored),
              selected |-> [i \in 1..Len(selected) |-> classified(selected[i])]] :
        bl \in get_backlog_tasks(st)}

\* outcomes [store, sts, selected]; sts is the fresh scheduler returned
plan_day(st, available_hours, peak_hours, estimation_bias) ==
    {IF bl = <<>> THEN [store |-> st, sts |-> NewSTS, selected |-> <<>>]
     ELSE LET biased == [i \in 1..Len(bl) |->
                  [bl[i] EXCEPT !.estimated_duration = (@ * estimation_bias) \div 2]]
              scored == SortBy(biased, [i \in 1..Len(biased) |->
                                          0 - score_task(biased[i], peak_hours)])
              packed == pack(scored, available_hours * 60, 0, <<>>)
              selected == [i \in 1..Len(packed) |-> [packed[i] EXCEPT !.status = ACTIVE]]
          IN [store |-> store_all(st, selected),
              sts |-> enqueue_batch(NewSTS, selected),
              selected |-> [i \in 1..Len(selected) |-> classified(selected[i])]] :
        bl \in get_backlog_tasks(st)}

(* ---------------------------------------------------------------------- *)
(* GhostWorker (agents/ghost_worker.py) and the draft endpoints of the     *)
(* relay (server.py).  gw holds the ghostworker:* keys, the messages in     *)
(* flight on ghostworker:approvals, what was published on                  *)
(* ghostworker:events, the TaskCompletions sent and the calls made to the  *)
(* external executor.  origin and terminal keep, for every draft id, the   *)
(* delegation it came from and the terminal status it has reached.         *)
(* ---------------------------------------------------------------------- *)
MaxDrafts == 2
MaxApprovals == 2

PENDING == "pending"
EXECUTED == "executed"
FAILED == "failed"
REJECTED == "rejected"

DraftIds == <<"d1", "d2", "d3">>

NewGhost(kernel_address) ==
    [kernel_address |-> kernel_address, drafts |-> <<>>, pending |-> {},
     approvals |-> <<>>, events |-> <<>>, sent |-> <<>>, calls |-> <<>>,
     minted |-> 0, origin |-> <<>>, terminal |-> <<>>]

DelegationTask(task_id, approval_required) ==
    [task_id |-> task_id, approval_required |-> approval_required]

TaskCompletion(to, task_id, status) == [to |-> to, task_id |-> task_id, status |-> status]

\* f with key k set to v, added when missing
Assign(f, k, v) == [x \in DOMAIN f \cup {k} |-> IF x = k THEN v ELSE f[x]]

\* f without key k
Without(f, k) == [x \in DOMAIN f \ {k} |-> f[x]]

\* ctx.send(address, completion), skipped when the address is empty
send(g, address, completion) ==
    IF address = "" THEN g ELSE [g EXCEPT !.sent = Append(@, completion)]

store_draft(g, draft_id, task) ==
    [g EXCEPT !.drafts = Assign(@, draft_id,
                            [task_id |-> task.task_id, status |-> PENDING, sender_address |-> ""]),
              !.pending = @ \cup {draft_id},
              !.events = Append(@, [event |-> "draft_created", draft_id |-> draft_id])]

\* <<result status, worker afterwards>>; ok is whether the executor succeeds
execute_draft(g, draft_id, ok) ==
    IF draft_id \notin DOMAIN g.drafts THEN <<FAILED, g>>
    ELSE LET status == IF ok THEN EXECUTED ELSE FAILED
         IN <<status,
              [g EXCEPT !.calls = Append(@, draft_id),
                        !.drafts[draft_id].status = status,
                        !.pending = @ \ {draft_id},
                        !.events = Append(@, [event |-> IF ok THEN "draft_executed" ELSE "draft_failed",
                                              draft_id |-> draft_id]),
                        !.terminal = Assign(@, draft_id, status)]>>

handle_delegation(g, sender, task, ok) ==
    LET draft_id == DraftIds[g.minted + 1]
        g1 == [g EXCEPT !.minted = @ + 1,
                        !.origin = Assign(@, draft_id, [task_id |-> task.task_id, sender |-> sender,
                                                         approval_required |-> task.approval_required])]
    IN IF ~task.approval_required
       THEN LET r == execute_draft(g1, draft_id, ok)
                g2 == [r[2] EXCEPT !.terminal = Assign(@, draft_id, r[1])]
            IN send(g2, g.kernel_address, TaskCompletion(g.kernel_address, task.task_id, r[1]))
       ELSE [store_draft(g1, draft_id, task) EXCEPT !.drafts[draft_id].sender_address = sender]

\* one message of the approval channel handled by poll_approvals
handle_approval(g, msg, ok) ==
    IF msg.draft_id = "" \/ msg.draft_id \notin DOMAIN g.drafts THEN g
    ELSE LET draft == g.drafts[msg.draft_id]
         IN IF msg.action = "approve"
            THEN LET r == execute_draft(g, msg.draft_id, ok)
                 IN send(r[2], draft.sender_address,
                         TaskCompletion(draft.sender_address, draft.task_id, r[1]))
            ELSE IF msg.action = "reject"
            THEN LET g1 == [g EXCEPT !.drafts[msg.draft_id].status = REJECTED,
                                     !.pending = @ \ {msg.draft_id},
                                     !.events = Append(@, [event |-> "draft_rejected",
                                                           draft_id |-> msg.draft_id]),
                                     !.terminal = Assign(@, msg.draft_id, REJECTED)]
                 IN send(g1, draft.sender_address,
                         TaskCompletion(draft.sender_address, draft.task_id, FAILED))
            ELSE g

\* the loop of poll_approvals over the messages waiting; oks[i] is whether
\* the executor succeeds for the i-th of them
RECURSIVE poll_approvals(_, _, _)
poll_approvals(g, msgs, oks) ==
    IF msgs = <<>> THEN g
    ELSE poll_approvals(handle_approval(g, Head(msgs), Head(oks)), Tail(msgs), Tail(oks))

\* POST /api/ghostworker/drafts/{draft_id}/approve: <<response status, worker afterwards>>
approve_draft(g, draft_id, ok) ==
    IF draft_id \notin DOMAIN g.drafts THEN <<"not_found", g>>
    ELSE LET status == IF ok THEN EXECUTED ELSE FAILED
         IN <<status,
              [g EXCEPT !.calls = Append(@, draft_id),
                        !.drafts = Without(@, draft_id),
                        !.pending = @ \ {draft_id},
                        !.events = Append(@, [event |-> IF ok THEN "draft_executed" ELSE "draft_failed",
                                              draft_id |-> draft_id]),
                        !.terminal = Assign(@, draft_id, status)]>>

\* POST /api/ghostworker/drafts/{draft_id}/reject
reject_draft(g, draft_id) ==
    IF draft_id \notin DOMAIN g.drafts THEN <<"not_found", g>>
    ELSE <<REJECTED,
           [g EXCEPT !.drafts = Without(@, draft_id),
                     !.pending = @ \ {draft_id},
                     !.events = Append(@, [event |-> "draft_rejected", draft_id |-> draft_id]),
                     !.terminal = Assign(@, draft_id, REJECTED)]>>

(* ---------------------------------------------------------------------- *)
(* Disruption classification (engine/disruption_classifier.py, repeated in *)
(* agents/disruption_detector.py).  metadata is a function from the keys   *)
(* present to integers; a flag such as urgent is 1 when set.               *)
(* ---------------------------------------------------------------------- *)
MINOR == "minor"
MAJOR == "major"
CRITICAL == "critical"

Get(metadata, key, default) == IF key \in DOMAIN metadata THEN metadata[key] ELSE default

Truthy(metadata, key) == key \in DOMAIN metadata /\ metadata[key] # 0

Abs(n) == IF n < 0 THEN 0 - n ELSE n

\* SEVERITY_RULES: base severity, escalate_if_tasks_affected (-1 when the rule
\* has none), escalate_if_urgent
SEVERITY_RULES(event_type) ==
    IF event_type = "meeting_ended_early" THEN [base |-> MINOR, affected |-> 3, urgent |-> FALSE]
    ELSE IF event_type = "new_email" THEN [base |-> MINOR, affected |-> 0 - 1, urgent |-> TRUE]
    ELSE IF event_type = "schedule_conflict" THEN [base |-> MAJOR, affected |-> 4, urgent |-> FALSE]
    ELSE IF event_type = "task_completed" THEN [base |-> MINOR, affected |-> 0 - 1, urgent |-> FALSE]
    ELSE IF event_type = "meeting_overrun" THEN [base |-> MAJOR, affected |-> 3, urgent |-> FALSE]
    ELSE IF event_type = "cancelled_meeting" THEN [base |-> MINOR, affected |-> 0, urgent |-> FALSE]
    ELSE [base |-> MINOR, affected |-> 0 - 1, urgent |-> FALSE]

classify_severity(event_type, affected_task_ids, metadata) ==
    LET rules == SEVERITY_RULES(event_type)
        num_affected == Len(affected_task_ids)
        escalated == IF rules.affected # 0 - 1 /\ num_affected >= rules.affected
                     THEN IF rules.base = MINOR THEN MAJOR
                          ELSE IF rules.base = MAJOR THEN CRITICAL ELSE rules.base
                     ELSE rules.base
    IN IF rules.urgent /\ Truthy(metadata, "urgent")
       THEN IF escalated = MINOR THEN MAJOR ELSE CRITICAL
       ELSE escalated

calculate_freed_minutes(event_type, metadata) ==
    IF event_type \in {"meeting_ended_early", "cancelled_meeting"}
    THEN Max(Get(metadata, "freed_minutes", 15), 0)
    ELSE IF event_type \in {"meeting_overrun", "schedule_conflict"}
    THEN 0 - Abs(Get(metadata, "lost_minutes", 30))
    ELSE IF event_type = "task_completed"
    THEN Max(Get(metadata, "saved_minutes", 0), 0)
    ELSE IF event_type = "new_email"
    THEN IF Truthy(metadata, "urgent") THEN 0 - 15 ELSE 0
    ELSE 0

\* determine_action without the test for major on lost time
determine_action_never_swaps_out(severity, freed_minutes) ==
    IF severity = CRITICAL THEN "reschedule_all"
    ELSE IF freed_minutes > 0 THEN "swap_in"
    ELSE IF freed_minutes < 0 THEN "delegate"
    ELSE "swap_in"

determine_action(severity, freed_minutes) ==
    IF severity = CRITICAL THEN "reschedule_all"
    ELSE IF freed_minutes > 0 THEN "swap_in"
    ELSE IF freed_minutes < 0
    THEN IF severity = MAJOR THEN "swap_out" ELSE "delegate"
    ELSE "swap_in"

(* ---------------------------------------------------------------------- *)
(* Context Sentinel (agents/context_sentinel.py) and Disruption Detector   *)
(* (agents/disruption_detector.py).  A calendar snapshot is the list of    *)
(* events polled, each [id, start, end] with start and end as hours of the *)
(* day and 0 for a missing (empty) value.                                  *)
(* ---------------------------------------------------------------------- *)
ContextChangeEvent(event_type, source, affected_task_ids, event_id, metadata) ==
    [event_type |-> event_type, source |-> source, affected_task_ids |-> affected_task_ids,
     event_id |-> event_id, metadata |-> metadata]

DisruptionEvent(severity, affected_task_ids, freed_minutes, recommended_action) ==
    [severity |-> severity, affected_task_ids |-> affected_task_ids,
     freed_minutes |-> freed_minutes, recommended_action |-> recommended_action]

\* sn.calendar is the cached snapshot (cached is FALSE before the first poll),
\* outbox the events on their way to the detector, disruptions the events the
\* detector has sent on
NewSentinel(detector_address) ==
    [detector_address |-> detector_address, calendar |-> [cached |-> FALSE, data |-> <<>>],
     slack |-> [cached |-> FALSE, data |-> <<>>],
     outbox |-> <<>>, disruptions |-> <<>>, poll_count |-> 0]

SnapIds(events) == {events[i].id : i \in 1..Len(events)}

\* the dict by id built from a list of events: a later event of the same id wins
by_id(events, id) ==
    events[CHOOSE i \in 1..Len(events) :
              /\ events[i].id = id
              /\ \A j \in (i + 1)..Len(events) : events[j].id # id]

\* the keys of that dict in insertion order
RECURSIVE dict_keys(_, _)
dict_keys(events, seen) ==
    IF events = <<>> THEN <<>>
    ELSE IF Head(events).id \in seen THEN dict_keys(Tail(events), seen)
    ELSE <<Head(events).id>> \o dict_keys(Tail(events), seen \cup {Head(events).id})

\* ids in task:active whose preferred_start lies in [start_time, end_time]
find_affected_tasks(st, start_time, end_time) ==
    LET overlaps(id) ==
            /\ id \in DOMAIN st.tasks
            /\ st.tasks[id].preferred_start # 0 /\ start_time # 0 /\ end_time # 0
            /\ start_time <= st.tasks[id].preferred_start
            /\ st.tasks[id].preferred_start <= end_time
    IN {SelectSeq(o, overlaps) : o \in Orders(st.active)}

\* the second loop comparing only the end of the event with the cached one
RECURSIVE detect_modified_end_only(_, _, _, _)
detect_modified_end_only(st, keys, current_events, cached_events) ==
    IF keys = <<>> THEN {<<>>}
    ELSE LET eid == Head(keys)
             cached_event == by_id(cached_events, eid)
             rest == detect_modified_end_only(st, Tail(keys), current_events, cached_events)
         IN IF eid \in SnapIds(current_events)
            THEN LET cur == by_id(current_events, eid)
                     event_type == IF cached_event.end # 0 /\ cur.end # 0 /\ cur.end < cached_event.end
                                   THEN "meeting_ended_early" ELSE "schedule_conflict"
                 IN IF cur.end # cached_event.end
                    THEN {<<ContextChangeEvent(event_type, "google_calendar", a, eid, <<>>)>> \o r :
                             a \in find_affected_tasks(st, cur.start, cur.end), r \in rest}
                    ELSE rest
            ELSE {<<ContextChangeEvent("event_cancelled", "google_calendar", a, eid, <<>>)>> \o r :
                     a \in find_affected_tasks(st, cached_event.start, cached_event.end), r \in rest}

\* the second loop of _detect_calendar_changes, over the cached ids
RECURSIVE detect_modified(_, _, _, _)
detect_modified(st, keys, current_events, cached_events) ==
    IF keys = <<>> THEN {<<>>}
    ELSE LET eid == Head(keys)
             cached_event == by_id(cached_events, eid)
             rest == detect_modified(st, Tail(keys), current_events, cached_events)
         IN IF eid \in SnapIds(current_events)
            THEN LET cur == by_id(current_events, eid)
                     event_type == IF cached_event.end # 0 /\ cur.end # 0 /\ cur.end < cached_event.end
                                   THEN "meeting_ended_early" ELSE "schedule_conflict"
                 IN IF cur.start # cached_event.start \/ cur.end # cached_event.end
                    THEN {<<ContextChangeEvent(event_type, "google_calendar", a, eid, <<>>)>> \o r :
                             a \in find_affected_tasks(st, cur.start, cur.end), r \in rest}
                    ELSE rest
            ELSE {<<ContextChangeEvent("event_cancelled", "google_calendar", a, eid, <<>>)>> \o r :
                     a \in find_affected_tasks(st, cached_event.start, cached_event.end), r \in rest}

\* the possible lists of events; cache is [cached, data]
detect_calendar_changes(st, current_events, cache) ==
    IF ~cache.cached THEN {<<>>}
    ELSE LET keys == dict_keys(current_events, {})
             is_new(id) == id # "" /\ id \notin SnapIds(cache.data)
             new_ids == SelectSeq(keys, is_new)
             new_events == [i \in 1..Len(new_ids) |->
                               ContextChangeEvent("new_calendar_event", "google_calendar",
                                                  <<>>, new_ids[i], <<>>)]
         IN {new_events \o m :
                m \in detect_modified(st, dict_keys(cache.data, {}), current_events, cache.data)}

\* the calendar part of poll_context_signals: <<events detected, sentinel afterwards>>
poll_calendar(st, s, current_calendar) ==
    {<<events, [s EXCEPT !.poll_count = @ + 1,
                         !.calendar = [cached |-> TRUE, data |-> current_calendar],
                         !.outbox = IF s.detector_address # "" THEN @ \o events ELSE @]>> :
        events \in detect_calendar_changes(st, current_calendar, s.calendar)}

\* a Slack message is [id, urgent_keyword, mention]: whether its text holds
\* one of the urgent keywords and whether it holds "@"; id "" is a missing id
Bit(b) == IF b THEN 1 ELSE 0

RECURSIVE detect_slack_changes(_, _)
detect_slack_changes(current_messages, cached_ids) ==
    IF current_messages = <<>> THEN <<>>
    ELSE LET msg == Head(current_messages)
             rest == detect_slack_changes(Tail(current_messages), cached_ids)
         IN IF msg.id # "" /\ msg.id \notin cached_ids /\ (msg.urgent_keyword \/ msg.mention)
            THEN <<ContextChangeEvent("slack_urgent_message", "slack", <<>>, msg.id,
                       [k \in {"is_urgent", "has_mention"} |->
                           IF k = "is_urgent" THEN Bit(msg.urgent_keyword) ELSE Bit(msg.mention)])>>
                 \o rest
            ELSE rest

\* a poll cycle in which only the Slack poll answers: <<events, sentinel afterwards>>
poll_slack(s, current_slack) ==
    LET events == IF s.slack.cached
                  THEN detect_slack_changes(current_slack, SnapIds(s.slack.data))
                  ELSE <<>>
    IN <<events, [s EXCEPT !.poll_count = @ + 1,
                           !.slack = [cached |-> TRUE, data |-> current_slack],
                           !.outbox = IF s.detector_address # "" THEN @ \o events ELSE @]>>

\* the detector's handler: the DisruptionEvent it sends to the kernel
handle_context_change(event) ==
    LET severity == classify_severity(event.event_type, event.affected_task_ids, event.metadata)
        freed_minutes == calculate_freed_minutes(event.event_type, event.metadata)
    IN DisruptionEvent(severity, event.affected_task_ids, freed_minutes,
                       determine_action(severity, freed_minutes))

(* ---------------------------------------------------------------------- *)
(* The relay's WebSocket side (server.py).  relay holds the connection     *)
(* manager's list, the sockets whose peer has gone, what every client has  *)
(* received, the request coroutine in flight with the position of its      *)
(* broadcast loop, and the sets of active ids list_active has had so far.   *)
(* ---------------------------------------------------------------------- *)
MaxRequests == 1
DEFAULT_AVAILABLE_HOURS == 8
RelayClients == {"x", "y"}

\* The relay's pub/sub listeners.  relay.channel holds the payloads published
\* and not yet read, relay.listening the channels whose listener task runs,
\* relay.relayed the messages the listeners have handed to manager.broadcast.
\* A payload is text that json.loads rejects or a JSON value: a string, an
\* array or an object with its fields.
ListenerChannels == {"ghostworker:events", "reminder:events"}

NotJson == [json |-> FALSE, t |-> "text", s |-> "", f |-> <<>>]
JStr(str) == [json |-> TRUE, t |-> "str", s |-> str, f |-> <<>>]
JArr == [json |-> TRUE, t |-> "arr", s |-> "", f |-> <<>>]
JObj(fields) == [json |-> TRUE, t |-> "obj", s |-> "", f |-> fields]

\* data.get(key, default) of a dict
dict_get(data, key, default) == IF key \in DOMAIN data.f THEN data.f[key] ELSE default

\* one message of ghostworker:events: [outcome, sent], outcome "raised" when an
\* exception leaves the loop
ghostworker_event(payload) ==
    IF ~payload.json THEN [outcome |-> "dropped", sent |-> <<>>]
    ELSE IF payload.t # "obj" THEN [outcome |-> "raised", sent |-> <<>>]
    ELSE LET event_type == dict_get(payload, "event", JStr(""))
             draft == dict_get(payload, "draft", JObj(<<>>))
         IN IF event_type = JStr("draft_created")
            THEN IF draft.t # "obj"
                 THEN [outcome |-> "raised", sent |-> <<"ghostworker_draft">>]
                 ELSE [outcome |-> "relayed", sent |-> <<"ghostworker_draft", "agent_activity">>]
            ELSE IF event_type = JStr("draft_executed")
            THEN [outcome |-> "relayed", sent |-> <<"ghost_worker_status", "agent_activity">>]
            ELSE IF event_type \in {JStr("draft_rejected"), JStr("draft_failed")}
            THEN [outcome |-> "relayed", sent |-> <<"ghost_worker_status">>]
            ELSE [outcome |-> "dropped", sent |-> <<>>]

\* one message of reminder:events
reminder_event(payload) ==
    IF ~payload.json THEN [outcome |-> "dropped", sent |-> <<>>]
    ELSE IF payload.t # "obj" THEN [outcome |-> "raised", sent |-> <<>>]
    ELSE LET event_type == dict_get(payload, "event", JStr(""))
             notification == dict_get(payload, "notification", JObj(<<>>))
         IN IF event_type = JStr("reminder")
            THEN IF notification.t # "obj"
                 THEN [outcome |-> "raised", sent |-> <<"reminder">>]
                 ELSE [outcome |-> "relayed", sent |-> <<"reminder", "agent_activity">>]
            ELSE [outcome |-> "dropped", sent |-> <<>>]

None == {}
Some(v) == {v}
Value(o) == CHOOSE v \in o : TRUE

ws_message(msg_type, rid, task_ids) == [type |-> msg_type, rid |-> rid, tasks |-> task_ids]

NoCo ==
    [kind |-> "none", rid |-> 0, msg |-> ws_message("none", 0, {}), i |-> 0, failed |-> {},
     next |-> "none", whole |-> {}, severity |-> "none", freed_minutes |-> 0,
     action |-> "none", planned |-> <<>>, delegated |-> 0]

NewRelay ==
    [connections |-> <<>>, closed |-> {}, joined |-> {},
     inbox |-> [c \in RelayClients |-> <<>>], co |-> NoCo, requests |-> 0, views |-> {{}},
     channel |-> [ch \in ListenerChannels |-> <<>>], listening |-> ListenerChannels,
     relayed |-> <<>>, handlers |-> <<>>,
     heartbeat |-> [state |-> "none", cancelling |-> FALSE, i |-> 0, failed |-> {}, rounds |-> 0]]

DisruptionRequest(event_type, affected_task_ids, freed_minutes, lost_minutes, metadata) ==
    [event_type |-> event_type, affected_task_ids |-> affected_task_ids,
     freed_minutes |-> freed_minutes, lost_minutes |-> lost_minutes, metadata |-> metadata]

\* the ids of the tasks get_active_tasks returns
ActiveIds(st) ==
    {id \in st.active \cap DOMAIN st.tasks : st.tasks[id].status \in {ACTIVE, IN_PROGRESS}}

SeqIds(ts) == {ts[i].task_id : i \in 1..Len(ts)}

Remove(list, gone) == LET stays(w) == w \notin gone IN SelectSeq(list, stays)

\* manager.broadcast(message) up to its first send
begin_broadcast(co, msg, next) ==
    [co EXCEPT !.msg = msg, !.i = 0, !.failed = {}, !.next = next]

\* the classification of simulate_disruption: <<severity, freed_minutes, action>>
classify_request(req) ==
    LET m1 == IF req.lost_minutes # None /\ Value(req.lost_minutes) # 0
              THEN Assign(req.metadata, "lost_minutes", Value(req.lost_minutes))
              ELSE req.metadata
        meta == IF req.freed_minutes # None /\ Value(req.freed_minutes) > 0
                THEN Assign(m1, "freed_minutes", Value(req.freed_minutes))
                ELSE m1
        severity == classify_severity(req.event_type, req.affected_task_ids, meta)
        computed == IF req.freed_minutes # None THEN Value(req.freed_minutes)
                    ELSE calculate_freed_minutes(req.event_type, meta)
        freed_minutes == IF req.lost_minutes # None /\ Value(req.lost_minutes) # 0
                         THEN 0 - Abs(Value(req.lost_minutes)) ELSE computed
    IN <<severity, freed_minutes, determine_action(severity, freed_minutes)>>

(* ---------------------------------------------------------------------- *)
(* Energy Monitor (agents/energy_monitor.py).  Time is counted in ticks of *)
(* 30 minutes.  em holds energy:user_reported with its timestamp, the      *)
(* sorted set energy:completions (member <<actual, estimated>> to score),  *)
(* the curve in use, the clock and the cached energy:current.              *)
(* ---------------------------------------------------------------------- *)
MaxClock == 6
MaxCompletions == 2
TicksPerHour == 2
VELOCITY_WINDOW == 4
USER_REPORTED_DECAY == 4
INACTIVITY_THRESHOLD == 1

DEFAULT_ENERGY_CURVE ==
    <<1, 1, 1, 1, 1, 1, 2, 3, 4, 4, 5, 4, 3, 3, 4, 5, 4, 3, 3, 2, 2, 2, 1, 1>>

EnergyLevel(level, confidence, source) ==
    [level |-> level, confidence |-> confidence, source |-> source]

NewEnergyMonitor ==
    [reported |-> None, reported_ts |-> 0, completions |-> <<>>,
     curve |-> DEFAULT_ENERGY_CURVE, has_profiler_curve |-> FALSE, clock |-> 0,
     current |-> EnergyLevel(0, 0, "none")]

\* datetime.now().hour with the clock starting at StartHour
HourOf(clock) == (StartHour + clock \div TicksPerHour) % 24

get_time_based_energy(m, hour) == m.curve[(hour % 24) + 1]

RECURSIVE SumOver(_, _)
SumOver(S, k) ==
    IF S = {} THEN 0
    ELSE LET e == CHOOSE x \in S : TRUE IN e[k] + SumOver(S \ {e}, k)

\* the velocity adjustment with the two thresholds exchanged
get_velocity_adjustment_swapped(m) ==
    LET entries == {e \in DOMAIN m.completions :
                       m.completions[e] >= m.clock - VELOCITY_WINDOW /\ m.completions[e] <= m.clock}
        total_actual == SumOver(entries, 1)
        total_estimated == SumOver(entries, 2)
    IN IF entries = {}
       THEN IF DOMAIN m.completions # {}
               /\ \A e \in DOMAIN m.completions :
                     m.clock - m.completions[e] > INACTIVITY_THRESHOLD
            THEN <<0 - 1, 0>> ELSE <<0, 0>>
       ELSE IF total_estimated = 0 THEN <<0, 0>>
       ELSE IF 10 * total_actual > 13 * total_estimated THEN <<1, Cardinality(entries)>>
       ELSE IF 10 * total_actual < 8 * total_estimated THEN <<0 - 1, Cardinality(entries)>>
       ELSE <<0, Cardinality(entries)>>

\* <<adjustment, completion_count>>
get_velocity_adjustment(m) ==
    LET entries == {e \in DOMAIN m.completions :
                       m.completions[e] >= m.clock - VELOCITY_WINDOW /\ m.completions[e] <= m.clock}
        total_actual == SumOver(entries, 1)
        total_estimated == SumOver(entries, 2)
    IN IF entries = {}
       THEN IF DOMAIN m.completions # {}
               /\ \A e \in DOMAIN m.completions :
                     m.clock - m.completions[e] > INACTIVITY_THRESHOLD
            THEN <<0 - 1, 0>> ELSE <<0, 0>>
       ELSE IF total_estimated = 0 THEN <<0, 0>>
       ELSE IF 10 * total_actual < 8 * total_estimated THEN <<1, Cardinality(entries)>>
       ELSE IF 10 * total_actual > 13 * total_estimated THEN <<0 - 1, Cardinality(entries)>>
       ELSE <<0, Cardinality(entries)>>

\* the report if it has not decayed, else None
get_user_reported(m) ==
    IF m.reported = None THEN None
    ELSE IF m.clock - m.reported_ts > USER_REPORTED_DECAY THEN None
    ELSE m.reported

\* confidence is kept in hundredths
compute_energy(m) ==
    LET user_level == get_user_reported(m)
        age == m.clock - m.reported_ts
        v == get_velocity_adjustment(m)
        final_level == Max(1, Min(5, get_time_based_energy(m, HourOf(m.clock)) + v[1]))
    IN IF user_level # None
       THEN EnergyLevel(Max(1, Min(5, Value(user_level))),
                        50 + (40 * (USER_REPORTED_DECAY - age)) \div USER_REPORTED_DECAY,
                        "user_reported")
       ELSE IF m.has_profiler_curve /\ v[2] >= 3 THEN EnergyLevel(final_level, 80, "inferred")
       ELSE IF m.has_profiler_curve THEN EnergyLevel(final_level, 70, "inferred")
       ELSE IF v[2] >= 3 THEN EnergyLevel(final_level, 60, "inferred")
       ELSE EnergyLevel(final_level, 40, "time_based")

\* zadd, then zremrangebyscore(-inf, now - window)
record_completion(m, actual_minutes, estimated_minutes) ==
    LET added == Assign(m.completions, <<actual_minutes, estimated_minutes>>, m.clock)
        kept == {e \in DOMAIN added : added[e] > m.clock - VELOCITY_WINDOW}
    IN [m EXCEPT !.completions = [e \in kept |-> added[e]]]

(* ---------------------------------------------------------------------- *)
(* Inputs the operations are driven with                                   *)
(* ---------------------------------------------------------------------- *)
TaskInputs ==
    {MkTask("a", 3, 1, 15, 0, 0, BACKLOG, 1),
     MkTask("a", 3, 1, 30, 0, 0, BACKLOG, 1),
     MkTask("b", 2, 3, 30, 3, 0, BACKLOG, 4),
     MkTask("c", 0, 5, 60, 2, 0, ACTIVE, 3)}

CreateInputs == {MkTask("n", 2, 1, 15, 0, 0, ACTIVE, 1)}

TaskIds == {"a", "b", "c", "n"}
EnergyLevels == {2, 3, 5}
LevelInputs == {0, 4, 7}
FreedInputs == {0 - 30, 0, 30}
HourInputs == {0, 1}
BiasInputs == {0, 2, 4}
MinuteInputs == {0, 15, 120}

(* ---------------------------------------------------------------------- *)
(* State                                                                   *)
(* ---------------------------------------------------------------------- *)
\* what the last operation was called with and what it returned
Result(op, m, e, b, id, si, so, dg, ret) ==
    [op |-> op, m |-> m, e |-> e, b |-> b, id |-> id,
     swapped_in |-> si, swapped_out |-> so, delegated |-> dg, ret |-> ret]

Init ==
    /\ now = 0
    /\ tasks = <<>>
    /\ backlog = {}
    /\ active = {}
    /\ buckets = [b \in 0..(BUCKET_COUNT - 1) |-> {}]
    /\ sts = NewSTS
    /\ energy = InitialEnergy
    /\ minted = {}
    /\ steps = 0
    /\ last = Result("init", 0, 0, 0, "none", <<>>, <<>>, <<>>, NoTask)
    /\ gw = NewGhost("")
    /\ sn = NewSentinel("")
    /\ wr = NoWrite
    /\ relay = NewRelay
    /\ em = NewEnergyMonitor

SetStore(st) ==
    /\ tasks' = st.tasks
    /\ backlog' = st.backlog
    /\ active' = st.active
    /\ buckets' = st.buckets

\* one more operation has been called
Step ==
    /\ steps < MaxSteps
    /\ steps' = steps + 1

(* ---------------------------------------------------------------------- *)
(* Operations                                                              *)
(* ---------------------------------------------------------------------- *)
\* an hour passes
Tick ==
    /\ now < MaxNow
    /\ now' = now + 1
    /\ last' = Result("tick", 0, 0, 0, "none", <<>>, <<>>, <<>>, NoTask)
    /\ UNCHANGED <<gw, sn, wr, relay, em, tasks, backlog, active, buckets, sts, energy, minted, steps>>

\* task_buffer.store_task(task)
Put(t) ==
    /\ Step
    /\ SetStore(store_task(Store, t))
    /\ last' = Result("put", 0, 0, 0, t.task_id, <<>>, <<>>, <<>>, t)
    /\ UNCHANGED <<gw, sn, wr, relay, em, now, sts, energy, minted>>

\* task_buffer.find_swap_out_candidates(minutes_needed)
FindSwapOutCandidates(m) ==
    /\ Step
    /\ \E c \in find_swap_out_candidates(Store, m) :
          last' = Result("find_swap_out_candidates", m, 0, 0, "none", <<>>, c, <<>>, NoTask)
    /\ UNCHANGED <<gw, sn, wr, relay, em, now, tasks, backlog, active, buckets, sts, energy, minted>>

\* tasks, _sts = lts.plan_day(available_hours, estimation_bias=...), as every
\* caller (POST /api/schedule/plan-day with the default bias 1.0) keeps the result
PlanDay(h, b) ==
    /\ Step
    /\ \E o \in plan_day(Store, h, PeakHours, b) :
          /\ SetStore(o.store)
          /\ sts' = o.sts
          /\ last' = Result("plan_day", h, 0, b, "none", o.selected, <<>>, <<>>, NoTask)
    /\ UNCHANGED <<gw, sn, wr, relay, em, now, energy, minted>>

\* mts.handle_disruption(freed_minutes, energy_level, peak_hours, sts)
HandleDisruption(f, e) ==
    /\ Step
    /\ total_count(sts) < MaxQueue
    /\ \E o \in handle_disruption(Store, sts, f, e, PeakHours) :
          /\ SetStore(o.store)
          /\ sts' = o.sts
          /\ last' = Result("handle_disruption", f, e, 0, "none",
                            o.swapped_in, o.swapped_out, o.delegated, NoTask)
    /\ UNCHANGED <<gw, sn, wr, relay, em, now, energy, minted>>

\* POST /api/energy
update_energy(level) ==
    LET clamped == Max(1, Min(5, level))
        d == IF clamped <= 2 THEN auto_delegate_p3(sts, clamped) ELSE <<(<<>>), sts>>
    IN /\ Step
       /\ energy' = clamped
       /\ em' = [em EXCEPT !.reported = Some(clamped), !.reported_ts = em.clock]
       /\ SetStore(store_all(Store, d[1]))
       /\ sts' = d[2]
       /\ last' = Result("update_energy", level, clamped, 0, "none", <<>>, <<>>, d[1], NoTask)
       /\ UNCHANGED <<gw, sn, wr, relay, now, minted>>

\* POST /api/tasks/{id}/complete
complete_task(id) ==
    LET task == from_redis(Store, id)
        done == [task EXCEPT !.status = COMPLETED]
        st1 == to_redis(Store, done)
        st2 == [st1 EXCEPT !.active = @ \ {id}]
    IN /\ Step
       /\ IF task = NoTask
          THEN /\ last' = Result("complete_task", 0, 0, 0, id, <<>>, <<>>, <<>>, NoTask)
               /\ UNCHANGED <<gw, sn, wr, relay, em, now, tasks, backlog, active, buckets, sts, energy, minted>>
          ELSE /\ SetStore(st2)
               /\ \E a \in get_active_tasks(st2) : sts' = reorder(sts, a)
               /\ last' = Result("complete_task", 0, 0, 0, id, <<>>, <<>>, <<>>, done)
               /\ UNCHANGED <<gw, sn, wr, relay, em, now, energy, minted>>

\* POST /api/tasks/{id}/start
start_task(id) ==
    LET task == from_redis(Store, id)
        started == [task EXCEPT !.status = IN_PROGRESS]
    IN /\ Step
       /\ IF task = NoTask
          THEN /\ last' = Result("start_task", 0, 0, 0, id, <<>>, <<>>, <<>>, NoTask)
               /\ UNCHANGED <<gw, sn, wr, relay, em, now, tasks, backlog, active, buckets, sts, energy, minted>>
          ELSE /\ SetStore(to_redis(Store, started))
               /\ last' = Result("start_task", 0, 0, 0, id, <<>>, <<>>, <<>>, started)
               /\ UNCHANGED <<gw, sn, wr, relay, em, now, sts, energy, minted>>

\* POST /api/tasks: the id is a fresh uuid
create_task(req) ==
    /\ Step
    /\ req.task_id \notin minted
    /\ total_count(sts) < MaxQueue
    /\ minted' = minted \cup {req.task_id}
    /\ SetStore(store_task(Store, req))
    /\ sts' = enqueue(sts, req)
    /\ last' = Result("create_task", 0, 0, 0, req.task_id, <<>>, <<>>, <<>>, classified(req))
    /\ UNCHANGED <<gw, sn, wr, relay, em, now, energy>>

\* DELETE /api/tasks/{id}
delete_task(id) ==
    LET task == from_redis(Store, id)
        st1 == delete_from_redis(Store, id)
    IN /\ Step
       /\ IF task = NoTask
          THEN /\ last' = Result("delete_task", 0, 0, 0, id, <<>>, <<>>, <<>>, NoTask)
               /\ UNCHANGED <<gw, sn, wr, relay, em, now, tasks, backlog, active, buckets, sts, energy, minted>>
          ELSE /\ SetStore(st1)
               /\ \E a \in get_active_tasks(st1) : sts' = reorder(sts, a)
               /\ last' = Result("delete_task", 0, 0, 0, id, <<>>, <<>>, <<>>, task)
               /\ UNCHANGED <<gw, sn, wr, relay, em, now, energy, minted>>

Next ==
    \/ Tick
    \/ \E t \in TaskInputs : Put(t)
    \/ \E m \in MinuteInputs : FindSwapOutCandidates(m)
    \/ \E h \in HourInputs, b \in BiasInputs : PlanDay(h, b)
    \/ \E f \in FreedInputs, e \in EnergyLevels : HandleDisruption(f, e)
    \/ \E l \in LevelInputs : update_energy(l)
    \/ \E id \in TaskIds : complete_task(id)
    \/ \E id \in TaskIds : start_task(id)
    \/ \E req \in CreateInputs : create_task(req)
    \/ \E id \in TaskIds : delete_task(id)

Spec == Init /\ [][Next]_vars

(* ---------------------------------------------------------------------- *)
(* The buffer under the engine's own operations: store_task, plan_day and  *)
(* handle_disruption                                                        *)
(* ---------------------------------------------------------------------- *)
NextBuffer ==
    \/ Tick
    \/ \E t \in TaskInputs : Put(t)
    \/ \E h \in HourInputs, b \in BiasInputs : PlanDay(h, b)
    \/ \E f \in FreedInputs, e \in EnergyLevels : HandleDisruption(f, e)

SpecBuffer == Init /\ [][NextBuffer]_vars

(* ---------------------------------------------------------------------- *)
(* The scheduler object driven directly through its methods                *)
(* ---------------------------------------------------------------------- *)
StsInputs == TaskInputs \cup CreateInputs

Enqueue(t) ==
    /\ Step
    /\ total_count(sts) < MaxQueue
    /\ sts' = enqueue(sts, t)
    /\ last' = Result("enqueue", 0, 0, 0, t.task_id, <<t>>, <<>>, <<>>, NoTask)
    /\ UNCHANGED <<gw, sn, wr, relay, em, now, tasks, backlog, active, buckets, energy, minted>>

Dequeue(e) ==
    /\ Step
    /\ LET d == dequeue(sts, e)
       IN /\ sts' = d[2]
          /\ last' = Result("dequeue", 0, e, 0, "none", <<>>, <<>>, <<>>, d[1])
    /\ UNCHANGED <<gw, sn, wr, relay, em, now, tasks, backlog, active, buckets, energy, minted>>

\* last.id is the id of the task that was current when preempt was called
Preempt(t, e) ==
    /\ Step
    /\ total_count(sts) < MaxQueue
    /\ LET d == preempt(sts, t, e)
       IN /\ sts' = d[2]
          /\ last' = Result("preempt", 0, e, 0, sts.current.task_id, <<t>>, <<>>, <<>>, d[1])
    /\ UNCHANGED <<gw, sn, wr, relay, em, now, tasks, backlog, active, buckets, energy, minted>>

SetCurrent(t) ==
    /\ Step
    /\ sts' = set_current(sts, t)
    /\ last' = Result("set_current", 0, 0, 0, t.task_id, <<>>, <<>>, <<>>, NoTask)
    /\ UNCHANGED <<gw, sn, wr, relay, em, now, tasks, backlog, active, buckets, energy, minted>>

ClearCurrent ==
    /\ Step
    /\ sts' = clear_current(sts)
    /\ last' = Result("clear_current", 0, 0, 0, "none", <<>>, <<>>, <<>>, NoTask)
    /\ UNCHANGED <<gw, sn, wr, relay, em, now, tasks, backlog, active, buckets, energy, minted>>

NextSTS ==
    \/ Tick
    \/ \E t \in StsInputs : Enqueue(t)
    \/ \E e \in EnergyLevels : Dequeue(e)
    \/ \E t \in StsInputs, e \in EnergyLevels : Preempt(t, e)
    \/ \E t \in StsInputs : SetCurrent(t)
    \/ ClearCurrent

SpecSTS == Init /\ [][NextSTS]_vars

(* ---------------------------------------------------------------------- *)
(* The worker and the draft endpoints driven directly                      *)
(* ---------------------------------------------------------------------- *)
KernelAddresses == {"", "kernel"}
Senders == {"kernel", "peer"}
DelegatedIds == {"t1", "t2"}
ApprovalInputs == {[action |-> a, draft_id |-> d] :
                      a \in {"approve", "reject"}, d \in {"d1", "d2", "dx"}}

InitGhost ==
    /\ now = 0
    /\ tasks = <<>>
    /\ backlog = {}
    /\ active = {}
    /\ buckets = [b \in 0..(BUCKET_COUNT - 1) |-> {}]
    /\ sts = NewSTS
    /\ energy = InitialEnergy
    /\ minted = {}
    /\ steps = 0
    /\ last = [op |-> "init"]
    /\ gw \in {NewGhost(k) : k \in KernelAddresses}
    /\ sn = NewSentinel("")
    /\ wr = NoWrite
    /\ relay = NewRelay
    /\ em = NewEnergyMonitor

Idle == UNCHANGED <<sn, wr, relay, em, now, tasks, backlog, active, buckets, sts, energy, minted>>

\* a DelegationTask arrives; a task is delegated once
HandleDelegation(sender, task, ok) ==
    /\ Step
    /\ gw.minted < MaxDrafts
    /\ \A d \in DOMAIN gw.origin : gw.origin[d].task_id # task.task_id
    /\ gw' = handle_delegation(gw, sender, task, ok)
    /\ last' = [op |-> "handle_delegation", draft_id |-> DraftIds[gw.minted + 1],
                task |-> task, sender |-> sender, ok |-> ok]
    /\ Idle

\* a message is published on ghostworker:approvals
PublishApproval(msg) ==
    /\ Step
    /\ Len(gw.approvals) < MaxApprovals
    /\ gw' = [gw EXCEPT !.approvals = Append(@, msg)]
    /\ last' = [op |-> "publish_approval", msg |-> msg]
    /\ Idle

\* the interval handler drains the approval channel
PollApprovals ==
    /\ Step
    /\ \E oks \in [1..Len(gw.approvals) -> BOOLEAN] :
          /\ gw' = [poll_approvals(gw, gw.approvals, oks) EXCEPT !.approvals = <<>>]
          /\ last' = [op |-> "poll_approvals", msgs |-> gw.approvals, oks |-> oks]
    /\ Idle

ApproveDraft(draft_id, ok) ==
    /\ Step
    /\ LET r == approve_draft(gw, draft_id, ok)
       IN /\ gw' = r[2]
          /\ last' = [op |-> "approve_draft", draft_id |-> draft_id, ok |-> ok, ret |-> r[1]]
    /\ Idle

RejectDraft(draft_id) ==
    /\ Step
    /\ LET r == reject_draft(gw, draft_id)
       IN /\ gw' = r[2]
          /\ last' = [op |-> "reject_draft", draft_id |-> draft_id, ret |-> r[1]]
    /\ Idle

NextGhost ==
    \/ \E s \in Senders, id \in DelegatedIds, a \in BOOLEAN, ok \in BOOLEAN :
          HandleDelegation(s, DelegationTask(id, a), ok)
    \/ \E msg \in ApprovalInputs : PublishApproval(msg)
    \/ PollApprovals
    \/ \E d \in {"d1", "d2", "dx"}, ok \in BOOLEAN : ApproveDraft(d, ok)
    \/ \E d \in {"d1", "d2", "dx"} : RejectDraft(d)

SpecGhost == InitGhost /\ [][NextGhost]_vars

(* ---------------------------------------------------------------------- *)
(* The sentinel's calendar poll and the detector driven directly            *)
(* ---------------------------------------------------------------------- *)
MaxPolls == 2
MaxOutbox == 2
MaxDisruptions == 1

DetectorAddresses == {"", "detector"}
EventIds == {"e1", "e2"}
EventTimes(id) == IF id = "e1" THEN {<<9, 11>>, <<9, 12>>, <<10, 12>>, <<9, 0>>}
                  ELSE {<<9, 11>>, <<9, 12>>}

\* the lists of events a poll may return: distinct ids, any order
CalendarInputs ==
    UNION {{[i \in 1..Len(o) |-> [id |-> o[i], start |-> v[i][1], end |-> v[i][2]]] :
               v \in {f \in [1..Len(o) -> {<<9, 11>>, <<9, 12>>, <<10, 12>>, <<9, 0>>}] :
                         \A i \in 1..Len(o) : f[i] \in EventTimes(o[i])}} :
           o \in UNION {Orders(S) : S \in SUBSET EventIds}}

SentinelTaskInputs ==
    {MkTask("k", 1, 3, 30, 0, 9, ACTIVE, 3), MkTask("m", 1, 3, 30, 0, 12, ACTIVE, 3)}

EventTypes == {"meeting_ended_early", "new_email", "schedule_conflict", "task_completed",
               "meeting_overrun", "cancelled_meeting", "event_cancelled", "new_calendar_event"}
AffectedInputs == {<<>>, <<"k">>, <<"k", "m", "t3">>, <<"k", "m", "t3", "t4">>}
MetadataInputs == {<<>>, [k \in {"urgent"} |-> 1], [k \in {"urgent"} |-> 0],
                   [k \in {"freed_minutes"} |-> 20], [k \in {"lost_minutes"} |-> 45]}

\* events other senders put to the detector
ContextInputs ==
    {ContextChangeEvent(t, "relay", a, "", md) :
        t \in EventTypes, a \in AffectedInputs, md \in MetadataInputs}

InitSentinel ==
    /\ now = 0
    /\ tasks = <<>>
    /\ backlog = {}
    /\ active = {}
    /\ buckets = [b \in 0..(BUCKET_COUNT - 1) |-> {}]
    /\ sts = NewSTS
    /\ energy = InitialEnergy
    /\ minted = {}
    /\ steps = 0
    /\ last = [op |-> "init"]
    /\ gw = NewGhost("")
    /\ sn \in {NewSentinel(a) : a \in DetectorAddresses}
    /\ wr = NoWrite
    /\ relay = NewRelay
    /\ em = NewEnergyMonitor

\* a task with a preferred start is stored as active
PutScheduled(t) ==
    /\ Step
    /\ SetStore(store_task(Store, t))
    /\ last' = [op |-> "put", id |-> t.task_id]
    /\ UNCHANGED <<gw, sn, wr, relay, em, now, sts, energy, minted>>

\* one poll cycle; last.cache is the snapshot the poll compared against
PollCalendar(current) ==
    /\ Step
    /\ sn.poll_count < MaxPolls
    /\ \E r \in poll_calendar(Store, sn, current) :
          /\ Len(r[2].outbox) <= MaxOutbox
          /\ sn' = r[2]
          /\ last' = [op |-> "poll_calendar", current |-> current, cache |-> sn.calendar,
                      events |-> r[1]]
    /\ UNCHANGED <<gw, wr, relay, em, now, tasks, backlog, active, buckets, sts, energy, minted>>

\* one poll cycle in which the calendar source fails.  An exception of
\* execute_operation is caught inside _poll_calendar, which then returns [];
\* one raised while the orchestrator is set up reaches the except of the cycle
PollCalendarFails(caught) ==
    /\ Step
    /\ sn.poll_count < MaxPolls
    /\ IF caught
       THEN \E r \in poll_calendar(Store, sn, <<>>) :
               /\ Len(r[2].outbox) <= MaxOutbox
               /\ sn' = r[2]
               /\ last' = [op |-> "poll_calendar_failed", caught |-> caught, events |-> r[1]]
       ELSE /\ sn' = [sn EXCEPT !.poll_count = @ + 1]
            /\ last' = [op |-> "poll_calendar_failed", caught |-> caught, events |-> <<>>]
    /\ UNCHANGED <<gw, wr, relay, em, now, tasks, backlog, active, buckets, sts, energy, minted>>

\* one poll cycle in which ctx.send raises for some of the events detected:
\* the snapshot is stored before the events are sent, and the except around
\* each send logs the failure and goes on.  oks[i] is whether the i-th send
\* succeeds
PollCalendarSendFails(current) ==
    /\ Step
    /\ sn.poll_count < MaxPolls
    /\ sn.detector_address # ""
    /\ \E r \in poll_calendar(Store, [sn EXCEPT !.detector_address = ""], current) :
       \E oks \in [1..Len(r[1]) -> BOOLEAN] :
          LET delivered(i) == oks[i]
              kept == SelectSeq([i \in 1..Len(r[1]) |-> i], delivered)
          IN /\ \E i \in 1..Len(r[1]) : ~oks[i]
             /\ Len(sn.outbox) + Len(kept) <= MaxOutbox
             /\ sn' = [r[2] EXCEPT !.detector_address = sn.detector_address,
                                   !.outbox = @ \o [i \in 1..Len(kept) |-> r[1][kept[i]]]]
             /\ last' = [op |-> "poll_calendar_send_failed", current |-> current,
                         cache |-> sn.calendar, events |-> r[1], oks |-> oks]
    /\ UNCHANGED <<gw, wr, relay, em, now, tasks, backlog, active, buckets, sts, energy, minted>>

\* the detector receives the next event of the sentinel
DeliverContextChange ==
    /\ Step
    /\ sn.outbox # <<>>
    /\ Len(sn.disruptions) < MaxDisruptions
    /\ sn' = [sn EXCEPT !.outbox = Tail(@),
                        !.disruptions = Append(@, handle_context_change(Head(sn.outbox)))]
    /\ last' = [op |-> "handle_context_change", event |-> Head(sn.outbox),
                disruption |-> handle_context_change(Head(sn.outbox))]
    /\ UNCHANGED <<gw, wr, relay, em, now, tasks, backlog, active, buckets, sts, energy, minted>>

\* the detector receives an event from another sender
ReceiveContextChange(event) ==
    /\ Step
    /\ Len(sn.disruptions) < MaxDisruptions
    /\ sn' = [sn EXCEPT !.disruptions = Append(@, handle_context_change(event))]
    /\ last' = [op |-> "handle_context_change", event |-> event,
                disruption |-> handle_context_change(event)]
    /\ UNCHANGED <<gw, wr, relay, em, now, tasks, backlog, active, buckets, sts, energy, minted>>

NextSentinel ==
    \/ \E t \in SentinelTaskInputs : PutScheduled(t)
    \/ \E c \in CalendarInputs : PollCalendar(c)
    \/ \E caught \in BOOLEAN : PollCalendarFails(caught)
    \/ \E c \in CalendarInputs : PollCalendarSendFails(c)
    \/ DeliverContextChange

SpecSentinel == InitSentinel /\ [][NextSentinel]_vars

NextDetector == \E ev \in ContextInputs : ReceiveContextChange(ev)

SpecDetector == InitSentinel /\ [][NextDetector]_vars

(* ---------------------------------------------------------------------- *)
(* The sentinel's Slack poll with the detector                             *)
(* ---------------------------------------------------------------------- *)
SlackIds == {"s1", "s2"}

SlackMessages ==
    {[id |-> i, urgent_keyword |-> u, mention |-> m] : i \in SlackIds, u \in BOOLEAN, m \in BOOLEAN}

SlackInputs == {<<>>} \cup {<<m>> : m \in SlackMessages}
                 \cup {<<m1, m2>> : m1 \in {m \in SlackMessages : m.id = "s1"},
                                    m2 \in {m \in SlackMessages : m.id = "s2"}}

PollSlack(current) ==
    LET r == poll_slack(sn, current)
    IN /\ Step
       /\ sn.poll_count < MaxPolls
       /\ Len(r[2].outbox) <= MaxOutbox
       /\ sn' = r[2]
       /\ last' = [op |-> "poll_slack", current |-> current, cache |-> sn.slack, events |-> r[1]]
       /\ UNCHANGED <<gw, wr, relay, em, now, tasks, backlog, active, buckets, sts, energy, minted>>

NextSlack ==
    \/ \E c \in SlackInputs : PollSlack(c)
    \/ DeliverContextChange

SpecSlack == InitSentinel /\ [][NextSlack]_vars

(* ---------------------------------------------------------------------- *)
(* The Energy Monitor's handlers, with POST /api/energy as the writer of   *)
(* the user report                                                         *)
(* ---------------------------------------------------------------------- *)
CompletionInputs == {<<10, 20>>, <<30, 20>>, <<0, 20>>}

CurveInputs == {[h \in 1..24 |-> 1], <<3, 3>>}

EnergyRest == UNCHANGED <<gw, sn, wr, relay, now, tasks, backlog, active, buckets, sts,
                          energy, minted, steps>>

\* half an hour passes
EnergyTick ==
    /\ em.clock < MaxClock
    /\ em' = [em EXCEPT !.clock = @ + 1]
    /\ last' = [op |-> "tick"]
    /\ EnergyRest

\* handle_energy_query and periodic_recompute
RecomputeEnergy ==
    /\ em' = [em EXCEPT !.current = compute_energy(em)]
    /\ last' = [op |-> "compute_energy", energy |-> compute_energy(em)]
    /\ EnergyRest

\* handle_task_completion(msg)
HandleTaskCompletion(status, c) ==
    LET recorded == record_completion(em, c[1], c[2])
    IN /\ Cardinality(DOMAIN em.completions) < MaxCompletions
       /\ IF status = EXECUTED /\ c[1] > 0 /\ c[2] > 0
          THEN /\ em' = [recorded EXCEPT !.current = compute_energy(recorded)]
               /\ last' = [op |-> "compute_energy", energy |-> compute_energy(recorded)]
          ELSE /\ em' = em
               /\ last' = [op |-> "completion_ignored"]
       /\ EnergyRest

\* handle_profile_update(msg)
HandleProfileUpdate(curve) ==
    LET updated == [em EXCEPT !.curve = curve, !.has_profiler_curve = TRUE]
    IN /\ IF Len(curve) = 24
          THEN /\ em' = [updated EXCEPT !.current = compute_energy(updated)]
               /\ last' = [op |-> "compute_energy", energy |-> compute_energy(updated)]
          ELSE /\ em' = em
               /\ last' = [op |-> "profile_ignored"]
       /\ EnergyRest

NextEnergy ==
    \/ EnergyTick
    \/ RecomputeEnergy
    \/ \E l \in LevelInputs : update_energy(l)
    \/ \E st \in {EXECUTED, FAILED}, c \in CompletionInputs : HandleTaskCompletion(st, c)
    \/ \E curve \in CurveInputs : HandleProfileUpdate(curve)

SpecEnergy == Init /\ [][NextEnergy]_vars

(* ---------------------------------------------------------------------- *)
(* The relay's pub/sub listeners with publishers on their channels         *)
(* ---------------------------------------------------------------------- *)
MaxChannel == 2

PayloadInputs ==
    {NotJson, JArr, JObj(<<>>),
     JObj([k \in {"event"} |-> JStr("reminder")]),
     JObj([k \in {"event"} |-> JStr("draft_executed")]),
     JObj([k \in {"event", "draft"} |-> IF k = "event" THEN JStr("draft_created") ELSE JStr("d1")])}

ListenerRest == UNCHANGED <<gw, sn, wr, em, now, tasks, backlog, active, buckets, sts,
                            energy, minted, steps>>

\* some process publishes on a channel
Publish(ch, payload) ==
    /\ Len(relay.channel["ghostworker:events"]) + Len(relay.channel["reminder:events"]) < MaxChannel
    /\ Len(relay.relayed) < MaxChannel
    /\ relay' = [relay EXCEPT !.channel[ch] = Append(@, payload)]
    /\ last' = [op |-> "publish", channel |-> ch]
    /\ ListenerRest

\* one turn of a listener's loop with a message waiting
Listen(ch, handled) ==
    /\ ch \in relay.listening
    /\ relay.channel[ch] # <<>>
    /\ relay' = [relay EXCEPT !.channel[ch] = Tail(@),
                              !.relayed = @ \o handled.sent,
                              !.listening = IF handled.outcome = "raised" THEN @ \ {ch} ELSE @]
    /\ last' = [op |-> "listen", channel |-> ch, outcome |-> handled.outcome]
    /\ ListenerRest

ghostworker_event_listener ==
    /\ relay.channel["ghostworker:events"] # <<>>
    /\ Listen("ghostworker:events", ghostworker_event(Head(relay.channel["ghostworker:events"])))

reminder_event_listener ==
    /\ relay.channel["reminder:events"] # <<>>
    /\ Listen("reminder:events", reminder_event(Head(relay.channel["reminder:events"])))

NextListener ==
    \/ \E ch \in ListenerChannels, payload \in PayloadInputs : Publish(ch, payload)
    \/ ghostworker_event_listener
    \/ reminder_event_listener

SpecListener == Init /\ [][NextListener]_vars

(* ---------------------------------------------------------------------- *)
(* The task endpoints of the relay with requests of any field values       *)
(* ---------------------------------------------------------------------- *)
\* CreateTaskRequest bodies: the defaults, and integers outside the ranges
CreateRequests ==
    {MkTask("n", 2, 3, 30, 0, 0, ACTIVE, 3),
     MkTask("p", 2, 9, 30, 0, 0, ACTIVE, 3),
     MkTask("q", 7, 3, 30, 0, 0, ACTIVE, 0),
     MkTask("r", 2, 3, 0, 0, 0, ACTIVE, 3)}

RequestIds == {"n", "p", "q", "r", "unknown"}

NextTasks ==
    \/ \E req \in CreateRequests : create_task(req)
    \/ \E id \in RequestIds : complete_task(id)
    \/ \E id \in RequestIds : start_task(id)
    \/ \E id \in RequestIds : delete_task(id)

SpecTasks == Init /\ [][NextTasks]_vars

(* ---------------------------------------------------------------------- *)
(* A scheduler filled by one enqueue_batch and read by get_ordered_schedule *)
(* ---------------------------------------------------------------------- *)
MaxBatch == 3

\* classes P0, P1 (twice, different urgency), P3 (twice, and tied when a task is
\* listed twice), and a P0 task whose energy_cost no energy level reaches
BatchTasks ==
    {MkTask("a", 2, 3, 30, 1, 0, ACTIVE, 3),
     MkTask("b", 2, 3, 30, 3, 0, ACTIVE, 3),
     MkTask("c", 1, 2, 30, 30, 0, ACTIVE, 3),
     MkTask("d", 3, 1, 15, 0, 0, ACTIVE, 1),
     MkTask("e", 0, 9, 30, 0, 0, ACTIVE, 3),
     MkTask("f", 3, 2, 15, 5, 0, ACTIVE, 2)}

BatchInputs == UNION {[1..n -> BatchTasks] : n \in 0..MaxBatch}

\* sts = ShortTermScheduler(); sts.enqueue_batch(list)
EnqueueBatch(list) ==
    /\ sts = NewSTS
    /\ last.op # "enqueue_batch"
    /\ sts' = enqueue_batch(sts, list)
    /\ last' = [op |-> "enqueue_batch", list |-> list]
    /\ UNCHANGED <<gw, sn, wr, relay, em, now, tasks, backlog, active, buckets, energy,
                   minted, steps>>

\* sts.get_ordered_schedule(energy_level): sorted() copies each queue
GetOrderedSchedule(energy_level) ==
    /\ last.op = "enqueue_batch"
    /\ last' = [op |-> "get_ordered_schedule", list |-> last.list, e |-> energy_level,
                ret |-> get_ordered_schedule(sts, energy_level)]
    /\ UNCHANGED <<gw, sn, wr, relay, em, now, tasks, backlog, active, buckets, sts, energy,
                   minted, steps>>

\* delegated = sts.auto_delegate_p3(energy_level)
AutoDelegateP3(energy_level) ==
    /\ last.op = "enqueue_batch"
    /\ sts' = auto_delegate_p3(sts, energy_level)[2]
    /\ last' = [op |-> "auto_delegate_p3", list |-> last.list, e |-> energy_level,
                ret |-> auto_delegate_p3(sts, energy_level)[1]]
    /\ UNCHANGED <<gw, sn, wr, relay, em, now, tasks, backlog, active, buckets, energy,
                   minted, steps>>

\* sts = ShortTermScheduler()
NewScheduler ==
    /\ last.op \in {"get_ordered_schedule", "auto_delegate_p3"}
    /\ sts' = NewSTS
    /\ last' = [op |-> "new"]
    /\ UNCHANGED <<gw, sn, wr, relay, em, now, tasks, backlog, active, buckets, energy,
                   minted, steps>>

NextBatch ==
    \/ \E list \in BatchInputs : EnqueueBatch(list)
    \/ \E e \in {3, 5} : GetOrderedSchedule(e)
    \/ \E e \in 1..5 : AutoDelegateP3(e)
    \/ NewScheduler

SpecBatch == Init /\ [][NextBatch]_vars

(* ---------------------------------------------------------------------- *)
(* Task.to_redis command by command, with a reader in another process.     *)
(* The reader is given the three keys in one look, the most a reader can   *)
(* get: the code's readers issue smembers and hgetall one after the other. *)
(* ---------------------------------------------------------------------- *)
PutInputs ==
    {MkTask(id, 3, 1, 15, 0, 0, st, 1) : id \in {"a", "b"}, st \in {BACKLOG, ACTIVE, SWAPPED_OUT}}

Indexed(t) == t.status \in {BACKLOG, ACTIVE, IN_PROGRESS}

\* r.hset(key, mapping=self.to_dict())
PutHset(t) ==
    /\ wr.pc = "idle"
    /\ tasks' = [x \in DOMAIN tasks \cup {t.task_id} |-> IF x = t.task_id THEN t ELSE tasks[x]]
    /\ wr' = [pc |-> "sadd_bucket", task |-> t,
              old_status |-> IF t.task_id \in DOMAIN tasks THEN tasks[t.task_id].status ELSE "none"]
    /\ last' = [op |-> "hset", id |-> t.task_id]
    /\ UNCHANGED <<backlog, active, buckets, now, sts, energy, minted, steps, gw, sn, relay, em>>

\* r.sadd(bucket:<n>, task_id)
PutSaddBucket ==
    /\ wr.pc = "sadd_bucket"
    /\ buckets' = [buckets EXCEPT ![bucket(wr.task)] = @ \cup {wr.task.task_id}]
    /\ wr' = IF Indexed(wr.task) THEN [wr EXCEPT !.pc = "sadd_index"] ELSE NoWrite
    /\ last' = [op |-> "sadd_bucket", id |-> wr.task.task_id]
    /\ UNCHANGED <<tasks, backlog, active, now, sts, energy, minted, steps, gw, sn, relay, em>>

\* r.sadd(BACKLOG_KEY, task_id) or r.sadd(ACTIVE_KEY, task_id)
PutSaddIndex ==
    /\ wr.pc = "sadd_index"
    /\ IF wr.task.status = BACKLOG
       THEN backlog' = backlog \cup {wr.task.task_id} /\ active' = active
       ELSE active' = active \cup {wr.task.task_id} /\ backlog' = backlog
    /\ wr' = [wr EXCEPT !.pc = "srem_index"]
    /\ last' = [op |-> "sadd_index", id |-> wr.task.task_id]
    /\ UNCHANGED <<tasks, buckets, now, sts, energy, minted, steps, gw, sn, relay, em>>

\* r.srem(ACTIVE_KEY, task_id) or r.srem(BACKLOG_KEY, task_id)
PutSremIndex ==
    /\ wr.pc = "srem_index"
    /\ IF wr.task.status = BACKLOG
       THEN active' = active \ {wr.task.task_id} /\ backlog' = backlog
       ELSE backlog' = backlog \ {wr.task.task_id} /\ active' = active
    /\ wr' = NoWrite
    /\ last' = [op |-> "srem_index", id |-> wr.task.task_id]
    /\ UNCHANGED <<tasks, buckets, now, sts, energy, minted, steps, gw, sn, relay, em>>

\* a reader in another process looks at task:backlog, task:active and task:<id>
ReadTask(id) ==
    /\ id \in DOMAIN tasks
    /\ last' = [op |-> "read", id |-> id, in_backlog |-> id \in backlog,
                in_active |-> id \in active, status |-> tasks[id].status,
                writing |-> wr]
    /\ UNCHANGED <<tasks, backlog, active, buckets, now, sts, energy, minted, steps, gw, sn, wr, relay, em>>

NextPut ==
    \/ \E t \in PutInputs : PutHset(t)
    \/ PutSaddBucket
    \/ PutSaddIndex
    \/ PutSremIndex
    \/ \E id \in {"a", "b"} : ReadTask(id)

SpecPut == Init /\ [][NextPut]_vars

(* ---------------------------------------------------------------------- *)
(* The relay with WebSocket clients.  Handlers run on one event loop: the  *)
(* code between two awaits is one step, and every send of a broadcast is   *)
(* an await at which the socket endpoints of the clients may run.  One     *)
(* HTTP request is in flight at a time.                                    *)
(* ---------------------------------------------------------------------- *)
EmptyStore ==
    [tasks |-> <<>>, backlog |-> {}, active |-> {}, buckets |-> [b \in 0..(BUCKET_COUNT - 1) |-> {}]]

\* what Redis holds once tasks have been stored; the active ones went
\* through POST /api/tasks and are queued
RelaySeeds ==
    {<<MkTask("a", 3, 1, 15, 0, 0, BACKLOG, 1), MkTask("c", 0, 5, 60, 2, 0, ACTIVE, 3)>>,
     <<MkTask("b", 2, 3, 30, 3, 0, BACKLOG, 4), MkTask("c", 0, 5, 60, 2, 0, ACTIVE, 3)>>,
     <<MkTask("a", 3, 1, 15, 0, 0, ACTIVE, 1)>>}

DisruptionInputs ==
    {DisruptionRequest("meeting_overrun", <<"t1", "t2", "t3">>, None, None, <<>>),
     DisruptionRequest("meeting_overrun", <<>>, None, Some(30), <<>>),
     DisruptionRequest("cancelled_meeting", <<>>, Some(30), None, <<>>)}

PlanDayRequests == {0, DEFAULT_AVAILABLE_HOURS}

InitRelay ==
    /\ now = 0
    /\ \E seed \in RelaySeeds :
          /\ tasks = store_all(EmptyStore, seed).tasks
          /\ backlog = store_all(EmptyStore, seed).backlog
          /\ active = store_all(EmptyStore, seed).active
          /\ buckets = store_all(EmptyStore, seed).buckets
          /\ relay = [NewRelay EXCEPT !.views = {ActiveIds(store_all(EmptyStore, seed))}]
          /\ \E a \in get_active_tasks(store_all(EmptyStore, seed)) : sts = enqueue_batch(NewSTS, a)
    /\ energy \in {2, InitialEnergy}
    /\ minted = {}
    /\ steps = 0
    /\ last = [op |-> "init"]
    /\ gw = NewGhost("")
    /\ sn = NewSentinel("")
    /\ wr = NoWrite
    /\ em = NewEnergyMonitor

RelayRest == UNCHANGED <<now, minted, steps, gw, sn, wr, em>>

\* websocket_endpoint up to its receive loop: connect, then the initial schedule
Connect(c) ==
    /\ c \notin relay.joined
    /\ relay' = [relay EXCEPT !.connections = Append(@, c),
                              !.joined = @ \cup {c},
                              !.inbox[c] = Append(@, ws_message("updated_schedule", 0, ActiveIds(Store)))]
    /\ last' = [op |-> "connect", client |-> c]
    /\ UNCHANGED <<tasks, backlog, active, buckets, sts, energy>>
    /\ RelayRest

\* the peer of a socket goes away: sends on it raise from now on
Close(c) ==
    /\ c \in relay.joined
    /\ c \notin relay.closed
    /\ relay' = [relay EXCEPT !.closed = @ \cup {c}, !.co.whole = @ \ {c}]
    /\ last' = [op |-> "close", client |-> c]
    /\ UNCHANGED <<tasks, backlog, active, buckets, sts, energy>>
    /\ RelayRest

\* websocket_endpoint's receive raises WebSocketDisconnect: manager.disconnect(ws)
Disconnect(c) ==
    /\ c \in relay.closed
    /\ \E i \in 1..Len(relay.connections) : relay.connections[i] = c
    /\ relay' = [relay EXCEPT !.connections = Remove(@, {c})]
    /\ last' = [op |-> "disconnect", client |-> c]
    /\ UNCHANGED <<tasks, backlog, active, buckets, sts, energy>>
    /\ RelayRest

\* one turn of "for ws in self._connections: await ws.send_text(message)"
BroadcastSend ==
    LET co == relay.co
        ws == relay.connections[co.i + 1]
    IN /\ co.kind # "none"
       /\ co.i < Len(relay.connections)
       /\ relay' = IF ws \in relay.closed
                   THEN [relay EXCEPT !.co.i = @ + 1, !.co.failed = @ \cup {ws}]
                   ELSE [relay EXCEPT !.co.i = @ + 1, !.inbox[ws] = Append(@, co.msg)]
       /\ last' = [op |-> "send", client |-> ws]
       /\ UNCHANGED <<tasks, backlog, active, buckets, sts, energy>>
       /\ RelayRest

\* the loop of the broadcast in progress is over and its caller goes on at next
Resumes(next) ==
    /\ relay.co.kind # "none"
    /\ relay.co.i >= Len(relay.connections)
    /\ relay.co.next = next

\* the end of manager.broadcast: the sockets that failed are dropped
Swept == Remove(relay.connections, relay.co.failed)

\* POST /api/disruption up to the first send of its disruption_event
simulate_disruption(req) ==
    LET c == classify_request(req)
        rid == relay.requests + 1
        co == [NoCo EXCEPT !.kind = "disruption", !.rid = rid,
                           !.whole = {relay.connections[i] : i \in 1..Len(relay.connections)}
                                        \ relay.closed,
                           !.severity = c[1], !.freed_minutes = c[2], !.action = c[3]]
    IN /\ relay.co.kind = "none"
       /\ relay.requests < MaxRequests
       /\ relay' = [relay EXCEPT !.requests = rid,
                       !.co = begin_broadcast(co, ws_message("disruption_event", rid, {}),
                                              "sentinel_activity")]
       /\ last' = [op |-> "simulate_disruption", req |-> req]
       /\ UNCHANGED <<tasks, backlog, active, buckets, sts, energy>>
       /\ RelayRest

\* the two agent_activity broadcasts that follow the disruption_event
simulate_disruption_activity ==
    /\ \/ Resumes("sentinel_activity")
       \/ Resumes("detector_activity")
    /\ relay' = [relay EXCEPT !.connections = Swept,
                    !.co = begin_broadcast(relay.co, ws_message("agent_activity", relay.co.rid, {}),
                              IF relay.co.next = "sentinel_activity"
                              THEN "detector_activity" ELSE "schedule")]
    /\ last' = [op |-> "simulate_disruption_activity"]
    /\ UNCHANGED <<tasks, backlog, active, buckets, sts, energy>>
    /\ RelayRest

\* Step 2 and Step 3: the scheduler runs, then the updated_schedule is built
simulate_disruption_schedule ==
    LET co == relay.co
        planned == plan_day(Store, DEFAULT_AVAILABLE_HOURS, PeakHours, 2)
        swapped == handle_disruption(Store, sts, co.freed_minutes, energy, PeakHours)
    IN /\ Resumes("schedule")
       /\ IF co.action = "reschedule_all"
          THEN \E o \in planned :
                  /\ SetStore(o.store)
                  /\ sts' = o.sts
                  /\ relay' = [relay EXCEPT !.connections = Swept,
                                  !.views = @ \cup {ActiveIds(o.store)},
                                  !.co = begin_broadcast([co EXCEPT !.planned = o.selected],
                                            ws_message("updated_schedule", co.rid, ActiveIds(o.store)),
                                            "summary")]
          ELSE \E o \in swapped :
                  /\ SetStore(o.store)
                  /\ \E a \in get_active_tasks(o.store) : sts' = reorder(o.sts, a)
                  /\ relay' = [relay EXCEPT !.connections = Swept,
                                  !.views = @ \cup {ActiveIds(o.store)},
                                  !.co = begin_broadcast([co EXCEPT !.delegated = Len(o.delegated)],
                                            ws_message("updated_schedule", co.rid, ActiveIds(o.store)),
                                            "summary")]
       /\ last' = [op |-> "simulate_disruption_schedule"]
       /\ UNCHANGED energy
       /\ RelayRest

\* the Scheduler Kernel agent_activity
simulate_disruption_summary ==
    /\ Resumes("summary")
    /\ relay' = [relay EXCEPT !.connections = Swept,
                    !.co = begin_broadcast(relay.co, ws_message("agent_activity", relay.co.rid, {}),
                                           "delegations")]
    /\ last' = [op |-> "simulate_disruption_summary"]
    /\ UNCHANGED <<tasks, backlog, active, buckets, sts, energy>>
    /\ RelayRest

\* one GhostWorker agent_activity for every task in result.delegated
simulate_disruption_delegations ==
    /\ Resumes("delegations")
    /\ relay.co.delegated > 0
    /\ relay' = [relay EXCEPT !.connections = Swept,
                    !.co = begin_broadcast([relay.co EXCEPT !.delegated = @ - 1],
                              ws_message("agent_activity", relay.co.rid, {}), "delegations")]
    /\ last' = [op |-> "simulate_disruption_delegations"]
    /\ UNCHANGED <<tasks, backlog, active, buckets, sts, energy>>
    /\ RelayRest

\* POST /api/schedule/plan-day up to the first send of its updated_schedule
trigger_plan_day(available_hours) ==
    LET rid == relay.requests + 1
    IN /\ relay.co.kind = "none"
       /\ relay.requests < MaxRequests
       /\ \E o \in plan_day(Store, available_hours, PeakHours, 2) :
             /\ SetStore(o.store)
             /\ sts' = o.sts
             /\ relay' = [relay EXCEPT !.requests = rid,
                             !.views = @ \cup {ActiveIds(o.store)},
                             !.co = begin_broadcast([NoCo EXCEPT !.kind = "plan_day", !.rid = rid,
                                                                 !.planned = o.selected],
                                       ws_message("updated_schedule", rid, SeqIds(o.selected)),
                                       "return")]
       /\ last' = [op |-> "trigger_plan_day", available_hours |-> available_hours]
       /\ UNCHANGED energy
       /\ RelayRest

\* the handler returns its response
Return ==
    /\ \/ Resumes("return")
       \/ Resumes("delegations") /\ relay.co.delegated = 0
    /\ relay' = [relay EXCEPT !.connections = Swept, !.co = NoCo]
    /\ last' = [op |-> "return"]
    /\ UNCHANGED <<tasks, backlog, active, buckets, sts, energy>>
    /\ RelayRest

NextRelay ==
    \/ \E c \in RelayClients : Connect(c)
    \/ \E c \in RelayClients : Close(c)
    \/ \E c \in RelayClients : Disconnect(c)
    \/ BroadcastSend
    \/ \E req \in DisruptionInputs : simulate_disruption(req)
    \/ simulate_disruption_activity
    \/ simulate_disruption_schedule
    \/ simulate_disruption_summary
    \/ simulate_disruption_delegations
    \/ \E h \in PlanDayRequests : trigger_plan_day(h)
    \/ Return

SpecRelay == InitRelay /\ [][NextRelay]_vars

(* ---------------------------------------------------------------------- *)
(* Several requests in flight.  No handler takes a lock: a handler runs    *)
(* from its start to its first suspended send, and from one suspended send *)
(* to the next.  A send on a socket whose peer is gone raises without      *)
(* suspending.  Handlers suspended on the same socket resume in the order  *)
(* in which they wrote to it.                                              *)
(* ---------------------------------------------------------------------- *)
MaxHandlers == 2

HandlerRequests == {[op |-> "complete_task", id |-> "a"], [op |-> "delete_task", id |-> "c"]}

NoHandler ==
    [op |-> "none", rid |-> 0, msg |-> ws_message("none", 0, {}), i |-> 0, failed |-> {},
     at |-> "", phase |-> "done"]

\* manager.broadcast as run by handler k, from where it stands up to the
\* next send that suspends, or to the return of the handler
RECURSIVE broadcast(_, _)
broadcast(rl, k) ==
    LET h == rl.handlers[k]
        ws == rl.connections[h.i + 1]
        swept == Remove(rl.connections, h.failed)
    IN IF h.i < Len(rl.connections)
       THEN IF ws \in rl.closed
            THEN broadcast([rl EXCEPT !.handlers[k].i = @ + 1,
                                      !.handlers[k].failed = @ \cup {ws}], k)
            ELSE [rl EXCEPT !.handlers[k].i = @ + 1, !.handlers[k].at = ws,
                            !.inbox[ws] = Append(@, h.msg)]
       ELSE IF h.phase = "updated_schedule" /\ h.op = "complete_task"
            THEN broadcast([rl EXCEPT !.connections = swept,
                                      !.handlers[k] = [h EXCEPT !.phase = "agent_activity",
                                                                !.msg = ws_message("agent_activity", h.rid, {}),
                                                                !.i = 0, !.failed = {}, !.at = ""]], k)
            ELSE [rl EXCEPT !.connections = swept,
                            !.handlers[k] = [h EXCEPT !.phase = "done", !.at = ""]]

\* the handler of a request, from its start to its first suspended send
Handle(req) ==
    LET task == from_redis(Store, req.id)
        done == [task EXCEPT !.status = COMPLETED]
        st1 == to_redis(Store, done)
        st == IF req.op = "complete_task"
              THEN [st1 EXCEPT !.active = @ \ {req.id}]
              ELSE delete_from_redis(Store, req.id)
        rid == Len(relay.handlers) + 1
        h == [NoHandler EXCEPT !.op = req.op, !.rid = rid, !.phase = "updated_schedule",
                               !.msg = ws_message("updated_schedule", rid, ActiveIds(st))]
    IN /\ Len(relay.handlers) < MaxHandlers
       /\ IF task = NoTask
          THEN /\ relay' = [relay EXCEPT !.handlers = Append(@, NoHandler)]
               /\ UNCHANGED <<tasks, backlog, active, buckets, sts>>
          ELSE /\ SetStore(st)
               /\ \E a \in get_active_tasks(st) : sts' = reorder(sts, a)
               /\ relay' = broadcast([relay EXCEPT !.handlers = Append(@, h)], rid)
       /\ last' = [op |-> req.op, id |-> req.id, found |-> task # NoTask]
       /\ UNCHANGED energy
       /\ RelayRest

\* the send handler k is suspended on is over, raising when the peer has
\* gone meanwhile, and the handler runs on
HandlerResumes(k) ==
    LET h == relay.handlers[k]
        raised == IF h.at \in relay.closed THEN {h.at} ELSE {}
    IN /\ k \in 1..Len(relay.handlers)
       /\ h.phase # "done"
       /\ \A j \in 1..(k - 1) : relay.handlers[j].phase = "done" \/ relay.handlers[j].at # h.at
       /\ relay' = broadcast([relay EXCEPT !.handlers[k].failed = @ \cup raised], k)
       /\ last' = [op |-> "resume", handler |-> k]
       /\ UNCHANGED <<tasks, backlog, active, buckets, sts, energy>>
       /\ RelayRest

NextHandlers ==
    \/ \E c \in RelayClients : Connect(c)
    \/ \E c \in RelayClients : Close(c)
    \/ \E c \in RelayClients : Disconnect(c)
    \/ \E req \in HandlerRequests : Handle(req)
    \/ \E k \in 1..MaxHandlers : HandlerResumes(k)

SpecHandlers == InitRelay /\ [][NextHandlers]_vars

(* ---------------------------------------------------------------------- *)
(* The heartbeat task of the connection manager.  The task is created by   *)
(* connect and cancelled by disconnect; Task.cancel() only requests the    *)
(* cancellation, which reaches the task at its next step, and done() is    *)
(* false until then.                                                       *)
(* ---------------------------------------------------------------------- *)
MaxRounds == 2

HeartbeatRest ==
    UNCHANGED <<now, tasks, backlog, active, buckets, sts, energy, minted, steps, gw, sn, wr, em>>

\* self._heartbeat_task is None or self._heartbeat_task.done()
heartbeat_done(hb) == hb.state \in {"none", "done"}

\* ConnectionManager.connect after ws.accept()
connect(c) ==
    LET hb == relay.heartbeat
    IN /\ c \notin relay.joined
       /\ relay' = [relay EXCEPT !.connections = Append(@, c),
                                 !.joined = @ \cup {c},
                                 !.heartbeat = IF heartbeat_done(hb)
                                               THEN [hb EXCEPT !.state = "created", !.cancelling = FALSE]
                                               ELSE hb]
       /\ last' = [op |-> "connect", client |-> c]
       /\ HeartbeatRest

\* ConnectionManager.disconnect
disconnect(c) ==
    LET left == Remove(relay.connections, {c})
        hb == relay.heartbeat
    IN /\ c \in relay.closed
       /\ \E i \in 1..Len(relay.connections) : relay.connections[i] = c
       /\ relay' = [relay EXCEPT !.connections = left,
                                 !.heartbeat = IF left = <<>> /\ ~heartbeat_done(hb)
                                               THEN [hb EXCEPT !.cancelling = TRUE]
                                               ELSE hb]
       /\ last' = [op |-> "disconnect", client |-> c]
       /\ HeartbeatRest

\* "while self._connections": the task sleeps again or returns
heartbeat_while(rl) ==
    [rl EXCEPT !.heartbeat.state = IF rl.connections = <<>> THEN "done" ELSE "sleeping"]

\* the requested cancellation reaches the task: CancelledError ends the loop
HeartbeatCancelled ==
    /\ relay.heartbeat.cancelling
    /\ relay' = [relay EXCEPT !.heartbeat.state = "done", !.heartbeat.cancelling = FALSE]
    /\ last' = [op |-> "heartbeat_cancelled"]
    /\ HeartbeatRest

\* the first step of the task
HeartbeatStarts ==
    /\ relay.heartbeat.state = "created"
    /\ ~relay.heartbeat.cancelling
    /\ relay' = heartbeat_while(relay)
    /\ last' = [op |-> "heartbeat_starts"]
    /\ HeartbeatRest

\* asyncio.sleep(HEARTBEAT_INTERVAL) is over
HeartbeatWakes ==
    /\ relay.heartbeat.state = "sleeping"
    /\ ~relay.heartbeat.cancelling
    /\ relay.heartbeat.rounds < MaxRounds
    /\ relay' = [relay EXCEPT !.heartbeat.state = "pinging", !.heartbeat.i = 0,
                              !.heartbeat.failed = {}, !.heartbeat.rounds = @ + 1]
    /\ last' = [op |-> "heartbeat_wakes"]
    /\ HeartbeatRest

\* one turn of "for ws in self._connections: await ws.send_json(ping)", or
\* the sweep after the loop
HeartbeatPings ==
    LET hb == relay.heartbeat
        ws == relay.connections[hb.i + 1]
    IN /\ hb.state = "pinging"
       /\ ~hb.cancelling
       /\ relay' = IF hb.i < Len(relay.connections)
                   THEN IF ws \in relay.closed
                        THEN [relay EXCEPT !.heartbeat.i = @ + 1, !.heartbeat.failed = @ \cup {ws}]
                        ELSE [relay EXCEPT !.heartbeat.i = @ + 1,
                                           !.inbox[ws] = Append(@, ws_message("ping", 0, {}))]
                   ELSE heartbeat_while([relay EXCEPT !.connections = Remove(@, hb.failed)])
       /\ last' = [op |-> "heartbeat_pings"]
       /\ HeartbeatRest

NextHeartbeat ==
    \/ \E c \in RelayClients : connect(c)
    \/ \E c \in RelayClients : Close(c)
    \/ \E c \in RelayClients : disconnect(c)
    \/ HeartbeatCancelled
    \/ HeartbeatStarts
    \/ HeartbeatWakes
    \/ HeartbeatPings

SpecHeartbeat == InitRelay /\ [][NextHeartbeat]_vars

(* ---------------------------------------------------------------------- *)
(* Properties                                                              *)
(* ---------------------------------------------------------------------- *)
Ids(ts) == {ts[i].task_id : i \in 1..Len(ts)}
Durations(ts) == [i \in 1..Len(ts) |-> ts[i].estimated_duration]
NoRepeats(ts) == \A i, j \in 1..Len(ts) : i # j => ts[i].task_id # ts[j].task_id
IsScheduled(t) == t.status \in {ACTIVE, IN_PROGRESS}

\* C1: every stored task's id is in task:backlog exactly when its status is
\* backlog and in task:active exactly when its status is active or
\* in_progress (so in neither set when swapped_out, completed or delegated).
C1_StatusIndexMatches ==
    \A id \in DOMAIN tasks :
        /\ id \in backlog <=> tasks[id].status = BACKLOG
        /\ id \in active <=> IsScheduled(tasks[id])

\* C2: after every put(task), also a repeated put of the same id with changed
\* fields, the id is a member of exactly one bucket set: the one numbered by
\* the task's currently computed bucket.
C2_OneBucketAfterPut ==
    last.op = "put" =>
        \A b \in DOMAIN buckets : last.id \in buckets[b] <=> b = bucket(tasks[last.id])

\* C3: handle_disruption dispatches on the sign of freed_minutes.  freed > 0:
\* swapped_out and delegated are empty and no task leaves the active set.
\* freed < 0: swapped_in is empty and delegated is non-empty only when
\* energy <= 2.  freed = 0: all three lists are empty and no task's status
\* changes.
C3_DispatchOnSign ==
    [][last'.op = "handle_disruption" =>
        /\ last'.m > 0 =>
              /\ last'.swapped_out = <<>>
              /\ last'.delegated = <<>>
              /\ active \subseteq active'
              /\ \A id \in DOMAIN tasks :
                    IsScheduled(tasks[id]) => id \in DOMAIN tasks' /\ IsScheduled(tasks'[id])
        /\ last'.m < 0 =>
              /\ last'.swapped_in = <<>>
              /\ last'.delegated # <<>> => last'.e <= 2
        /\ last'.m = 0 =>
              /\ last'.swapped_in = <<>>
              /\ last'.swapped_out = <<>>
              /\ last'.delegated = <<>>
              /\ DOMAIN tasks' = DOMAIN tasks
              /\ \A id \in DOMAIN tasks : tasks'[id].status = tasks[id].status]_vars

\* a negative disruption at low energy that swapped a task out and delegated one
C3_Witness ==
    /\ last.op = "handle_disruption"
    /\ last.m < 0
    /\ last.e <= 2
    /\ last.swapped_out # <<>>
    /\ last.delegated # <<>>

\* positions in the queue of class p whose task fits the energy level
Fitting(s, p, e) == {i \in 1..Len(s.queues[p]) : s.queues[p][i].task.energy_cost <= e}

GainedEntry(p, id) ==
    /\ Len(sts'.queues[p]) = Len(sts.queues[p]) + 1
    /\ \E i \in 1..Len(sts'.queues[p]) : sts'.queues[p][i].task.task_id = id
    /\ \A q \in Priority \ {p} : sts'.queues[q] = sts.queues[q]

\* preempt when a current task exists and the urgent task has higher priority
PreemptSwitches(urgent) ==
    /\ last'.ret # NoTask
    /\ last'.ret.task_id = sts.current.task_id
    /\ sts'.current = urgent
    /\ GainedEntry(classify_priority(sts.current), sts.current.task_id)

\* preempt that only queues the urgent task
PreemptQueues(urgent) ==
    /\ last'.ret = NoTask
    /\ sts'.current = sts.current
    /\ GainedEntry(classify_priority(urgent), urgent.task_id)

\* C5 as stated: a current task with lower priority is re-enqueued, replaced by
\* urgent and returned; in every other case, also when there is no current
\* task, urgent is enqueued, the current task is unchanged, none is returned.
C5_PreemptAsStated ==
    [][last'.op = "preempt" =>
        LET urgent == last'.swapped_in[1]
        IN IF sts.current # NoTask /\ classify_priority(urgent) < sts.current.priority
           THEN PreemptSwitches(urgent)
           ELSE PreemptQueues(urgent)]_vars

\* C5 amended: as stated when a current task exists; when there is no current
\* task, urgent becomes the current task, no queue changes and none is
\* returned.
C5_Preempt ==
    [][last'.op = "preempt" =>
        LET urgent == last'.swapped_in[1]
        IN IF sts.current = NoTask
           THEN /\ last'.ret = NoTask
                /\ sts'.current = urgent
                /\ sts'.queues = sts.queues
           ELSE IF classify_priority(urgent) < sts.current.priority
           THEN PreemptSwitches(urgent)
           ELSE PreemptQueues(urgent)]_vars

\* preempt was called with no current task and the urgent task is now current
C5_Witness ==
    /\ last.op = "preempt"
    /\ last.id = "none"
    /\ last.ret = NoTask
    /\ sts.current = last.swapped_in[1]

\* C6: the post-bias durations of the tasks plan_day selects sum to at most
\* 60 * available_hours.
C6_PlanWithinBudget ==
    last.op = "plan_day" => SeqSum(Durations(last.swapped_in)) <= 60 * last.m

\* a plan with doubled durations that selected a task and left another in
\* the backlog
C6_Witness ==
    /\ last.op = "plan_day"
    /\ last.b = 4
    /\ last.swapped_in # <<>>
    /\ \E id \in DOMAIN tasks : tasks[id].status = BACKLOG

\* the order of swap-out: lowest priority first, then least urgent
SwapOutKey(t) == 1000 * (3 - t.priority) + deadline_urgency(t)

\* C7: find_swap_out_candidates(m) returns stored tasks of status active only
\* (never in_progress), lowest priority first and then by ascending
\* deadline_urgency, forming the shortest prefix of that order of all active
\* tasks whose durations sum to >= m, or all of them when their total is < m.
C7_SwapOutPrefix ==
    last.op = "find_swap_out_candidates" =>
        LET c == last.swapped_out
            eligible == {id \in DOMAIN tasks : tasks[id].status = ACTIVE}
        IN /\ NoRepeats(c)
           /\ \A i \in 1..Len(c) : c[i].task_id \in eligible /\ c[i] = tasks[c[i].task_id]
           /\ \A i, j \in 1..Len(c) : i < j => SwapOutKey(c[i]) <= SwapOutKey(c[j])
           /\ \A id \in eligible \ Ids(c) :
                 \A i \in 1..Len(c) : SwapOutKey(c[i]) <= SwapOutKey(tasks[id])
           /\ SeqSum(Durations(c)) >= last.m \/ Ids(c) = eligible
           /\ c # <<>> => SeqSum(Durations(SubSeq(c, 1, Len(c) - 1))) < last.m

\* a query that stopped before the end of the active tasks while another task
\* is in progress
C7_Witness ==
    /\ last.op = "find_swap_out_candidates"
    /\ last.swapped_out # <<>>
    /\ \E id \in DOMAIN tasks : tasks[id].status = ACTIVE /\ id \notin Ids(last.swapped_out)
    /\ \E id \in DOMAIN tasks : tasks[id].status = IN_PROGRESS

\* C8: one handle_swap_in call processes each task id at most once: no id is
\* repeated in swapped_in and the durations of the swapped-in tasks sum to at
\* most freed_minutes.
C8_SwapInOncePerId ==
    last.op = "handle_disruption" /\ last.m > 0 =>
        /\ NoRepeats(last.swapped_in)
        /\ SeqSum(Durations(last.swapped_in)) <= last.m

\* C9: one handle_swap_out call with energy_level <= 2 reports no task id in
\* both swapped_out and delegated, and each reported task is stored with the
\* status of the list it is in.
C9_SwapOutDelegateDisjoint ==
    last.op = "handle_disruption" /\ last.m < 0 /\ last.e <= 2 =>
        /\ Ids(last.swapped_out) \cap Ids(last.delegated) = {}
        /\ \A id \in Ids(last.swapped_out) : tasks[id].status = SWAPPED_OUT
        /\ \A id \in Ids(last.delegated) : tasks[id].status = DELEGATED

\* the lifecycle: the statuses a task may come from to reach a status
MayBecome(old, new) ==
    \/ new = old
    \/ new = IN_PROGRESS /\ old = ACTIVE
    \/ new = ACTIVE /\ old \in {BACKLOG, SWAPPED_OUT}
    \/ new \in {SWAPPED_OUT, DELEGATED} /\ old \in {ACTIVE, IN_PROGRESS}
    \/ new = COMPLETED
       
\* C10: every status change a scheduler or relay operation makes to a stored
\* task obeys the lifecycle, and no task leaves completed.
C10_Lifecycle ==
    [][last'.op \notin {"put", "tick"} =>
        \A id \in DOMAIN tasks \cap DOMAIN tasks' :
            /\ MayBecome(tasks[id].status, tasks'[id].status)
            /\ tasks[id].status = COMPLETED => tasks'[id].status = COMPLETED]_vars

\* C11: a task marked swapped_out can return to active: a swap-in with enough
\* time and energy for a stored swapped_out task takes a candidate, and so
\* does plan_day with enough hours for it, so neither comes back empty while
\* such a task waits.
C11_SwappedOutIsCandidate ==
    [][/\ (last'.op = "handle_disruption" /\ last'.m > 0
            /\ \E id \in DOMAIN tasks :
                  /\ tasks[id].status = SWAPPED_OUT
                  /\ tasks[id].estimated_duration <= last'.m
                  /\ tasks[id].energy_cost <= last'.e)
              => last'.swapped_in # <<>>
       /\ (last'.op = "plan_day"
            /\ \E id \in DOMAIN tasks :
                  /\ tasks[id].status = SWAPPED_OUT
                  /\ (tasks[id].estimated_duration * last'.b) \div 2 <= 60 * last'.m)
              => last'.swapped_in # <<>>]_vars

\* the completions sent for a task id
CompletionsFor(task_id) == {i \in 1..Len(gw.sent) : gw.sent[i].task_id = task_id}

\* C12: every draft that has reached a terminal status (executed, failed or
\* rejected; by auto-execution, approval or rejection) has exactly one
\* TaskCompletion for its task_id, with that terminal status, sent to the
\* sender of the original DelegationTask.
C12_OneCompletionPerTerminalDraft ==
    \A d \in DOMAIN gw.terminal :
        /\ Cardinality(CompletionsFor(gw.origin[d].task_id)) = 1
        /\ \A i \in CompletionsFor(gw.origin[d].task_id) :
              /\ gw.sent[i].status = gw.terminal[d]
              /\ gw.sent[i].to = gw.origin[d].sender

\* C13: a DelegationTask with approval_required = false has its draft executed
\* at once (the executor is called for it, no approval message is consumed) and
\* a completion sent for it has status executed when the executor succeeds;
\* with approval_required = true the handler calls no executor, stores the
\* draft as pending and publishes draft_created, and the executor is called
\* for such a draft only on an approval.
C13_AutoExecuteOrPending ==
    [][/\ last'.op = "handle_delegation" =>
             LET d == last'.draft_id
             IN IF ~last'.task.approval_required
                THEN /\ gw'.calls = Append(gw.calls, d)
                     /\ gw'.approvals = gw.approvals
                     /\ last'.ok =>
                           \A i \in (Len(gw.sent) + 1)..Len(gw'.sent) :
                               gw'.sent[i].status = EXECUTED
                ELSE /\ gw'.calls = gw.calls
                     /\ d \in gw'.pending
                     /\ d \in DOMAIN gw'.drafts /\ gw'.drafts[d].status = PENDING
                     /\ gw'.events = Append(gw.events, [event |-> "draft_created", draft_id |-> d])
       /\ \A i \in (Len(gw.calls) + 1)..Len(gw'.calls) :
             gw.origin[gw'.calls[i]].approval_required =>
                 last'.op \in {"poll_approvals", "approve_draft"}]_vars

\* the event of a snapshot that has the id
EventOf(snapshot, id) == snapshot[CHOOSE i \in 1..Len(snapshot) : snapshot[i].id = id]

\* what a poll owes an event id, "none" when it owes nothing
ExpectedChange(id, old, new) ==
    IF id \notin SnapIds(old) THEN (IF id \in SnapIds(new) THEN "new_calendar_event" ELSE "none")
    ELSE IF id \notin SnapIds(new) THEN "event_cancelled"
    ELSE LET o == EventOf(old, id)
             n == EventOf(new, id)
         IN IF o.start = n.start /\ o.end = n.end THEN "none"
            ELSE IF o.end # 0 /\ n.end # 0 /\ n.end < o.end THEN "meeting_ended_early"
            ELSE "schedule_conflict"

\* C17: a poll against a cached snapshot emits exactly one event for every
\* event id that is new (new_calendar_event), missing (event_cancelled) or has
\* a changed start or end (meeting_ended_early when both ends are set and
\* new_end < old_end, otherwise schedule_conflict), and none for an id whose
\* start and end are unchanged; the first poll, with nothing cached, emits no
\* event; either way the polled snapshot is stored.
C17_CalendarDiff ==
    last.op = "poll_calendar" =>
        /\ sn.calendar = [cached |-> TRUE, data |-> last.current]
        /\ IF ~last.cache.cached THEN last.events = <<>>
           ELSE \A id \in EventIds \cup {last.events[i].event_id : i \in 1..Len(last.events)} :
                   LET emitted == {i \in 1..Len(last.events) : last.events[i].event_id = id}
                       expected == ExpectedChange(id, last.cache.data, last.current)
                   IN IF expected = "none" THEN emitted = {}
                      ELSE /\ Cardinality(emitted) = 1
                           /\ \A i \in emitted : last.events[i].event_type = expected

\* a poll that found one meeting moved to a later start and the other gone
C17_Witness ==
    /\ last.op = "poll_calendar"
    /\ last.cache.cached
    /\ \E i, j \in 1..Len(last.events) :
          /\ last.events[i].event_type = "schedule_conflict"
          /\ EventOf(last.cache.data, last.events[i].event_id).end
                = EventOf(last.current, last.events[i].event_id).end
          /\ last.events[j].event_type = "event_cancelled"

\* C18: the DisruptionEvent produced for a calendar event that disappeared
\* between two polls has freed_minutes > 0 and, unless it is critical,
\* recommended_action swap_in.
C18_CancelledFreesTime ==
    (last.op = "handle_context_change" /\ last.event.event_type = "event_cancelled") =>
        /\ last.disruption.freed_minutes > 0
        /\ last.disruption.severity # CRITICAL => last.disruption.recommended_action = "swap_in"

\* an urgent new_email event with no affected task has been classified
UrgentEmailClassified ==
    /\ last.op = "handle_context_change"
    /\ last.event.event_type = "new_email"
    /\ Truthy(last.event.metadata, "urgent")
    /\ last.event.affected_task_ids = <<>>

\* C20 as stated: an urgent new_email event with no affected task is
\* classified with severity major and recommended_action delegate.
C20_UrgentEmailDelegate ==
    UrgentEmailClassified =>
        /\ last.disruption.severity = MAJOR
        /\ last.disruption.recommended_action = "delegate"

\* C20 amended: an urgent new_email event with no affected task is classified
\* with severity major and recommended_action swap_out.
C20_UrgentEmailSwapOut ==
    UrgentEmailClassified =>
        /\ last.disruption.severity = MAJOR
        /\ last.disruption.recommended_action = "swap_out"

\* the detector has sent on the disruption of an urgent email, 15 minutes lost
C20_Witness ==
    /\ UrgentEmailClassified
    /\ last.disruption.freed_minutes = 0 - 15
    /\ sn.disruptions = <<last.disruption>>

\* the read happened while a put was moving the task read between backlog and active
ReadDuringMove ==
    /\ last.op = "read"
    /\ last.writing.pc # "idle"
    /\ last.writing.task.task_id = last.id
    /\ \/ last.writing.old_status = BACKLOG /\ last.writing.task.status = ACTIVE
       \/ last.writing.old_status = ACTIVE /\ last.writing.task.status = BACKLOG

\* C16: a reader in another process that reads task:backlog, task:active and
\* the task's hash while put(task) moves the task between backlog and active
\* sees the id in exactly one of the two sets, the one its status field names.
C16_MoveLooksAtomic ==
    ReadDuringMove =>
        /\ last.in_backlog <=> last.status = BACKLOG
        /\ last.in_active <=> last.status \in {ACTIVE, IN_PROGRESS}
        /\ last.in_backlog # last.in_active

\* a put left off command by command stores what to_redis stores in one step
PutStepsAgree ==
    [][wr.pc # "idle" /\ wr'.pc = "idle" =>
          /\ backlog' = to_redis(Store, wr.task).backlog
          /\ active' = to_redis(Store, wr.task).active
          /\ buckets' = to_redis(Store, wr.task).buckets
          /\ tasks' = to_redis(Store, wr.task).tasks]_vars

\* client c has received message kind of request rid at position i of its inbox
ReceivedAt(c, i, kind, rid) ==
    /\ i \in 1..Len(relay.inbox[c])
    /\ relay.inbox[c][i].type = kind
    /\ relay.inbox[c][i].rid = rid

\* C14: every client connected for the whole of a disruption request receives
\* that request's disruption_event before its updated_schedule.
C14_EventBeforeSchedule ==
    relay.co.kind = "disruption" =>
        \A c \in relay.co.whole :
            \A j \in 1..Len(relay.inbox[c]) :
                ReceivedAt(c, j, "updated_schedule", relay.co.rid) =>
                    \E i \in 1..(j - 1) : ReceivedAt(c, i, "disruption_event", relay.co.rid)

\* C15: the task list of every updated_schedule broadcast is the list of
\* active tasks the buffer had at some instant between two scheduling steps.
C15_BroadcastIsListActive ==
    relay.co.msg.type = "updated_schedule" => relay.co.msg.tasks \in relay.views

\* C19: once a critical disruption (reschedule_all) has been handled at energy
\* level <= 2, no P3 task is queued in the scheduler and every P3 task that was
\* planned is stored with status delegated.
C19_CriticalLowEnergyDelegatesP3 ==
    /\ relay.co.kind = "disruption"
    /\ relay.co.action = "reschedule_all"
    /\ relay.co.next \in {"summary", "delegations"}
    /\ energy <= 2
    => /\ sts.queues[3] = <<>>
       /\ \A i \in 1..Len(relay.co.planned) :
             relay.co.planned[i].priority = 3 =>
                 tasks[relay.co.planned[i].task_id].status = DELEGATED

\* the detector has classified a cancelled_meeting event
CancelledMeetingClassified ==
    /\ last.op = "handle_context_change"
    /\ last.event.event_type = "cancelled_meeting"

\* C21: a cancelled_meeting event is classified minor whatever the number of
\* affected tasks (0, 1 or more).
C21_CancelledMeetingMinor ==
    CancelledMeetingClassified => last.disruption.severity = MINOR

\* the detector has classified a slack_urgent_message event of the Slack poll
SlackClassified ==
    /\ last.op = "handle_context_change"
    /\ last.event.event_type = "slack_urgent_message"

\* the metadata of the event marks it urgent
MarkedUrgent(metadata) == Truthy(metadata, "urgent") \/ Truthy(metadata, "is_urgent")

\* C22: a slack_urgent_message event the poller emits is classified major when
\* its metadata marks it urgent and minor when it does not.
C22_SlackUrgentEscalates ==
    SlackClassified =>
        last.disruption.severity = IF MarkedUrgent(last.event.metadata) THEN MAJOR ELSE MINOR

\* the step is a call of POST /api/energy
EnergyPosted == steps' # steps /\ last'.op = "update_energy"

\* the ids and statuses of the stored tasks
StoredStatus(ts) == [id \in DOMAIN ts |-> ts[id].status]

RecentCompletions ==
    {e \in DOMAIN em.completions : em.clock - em.completions[e] \in 0..VELOCITY_WINDOW}

\* no completion in the last two hours, and the latest one over 30 minutes ago
Stalled ==
    /\ RecentCompletions = {}
    /\ DOMAIN em.completions # {}
    /\ \A e \in DOMAIN em.completions : em.clock - em.completions[e] > INACTIVITY_THRESHOLD

\* the adjustment from ten times the ratio of actual to estimated minutes
RatioAdjustment ==
    LET actual == SumOver(RecentCompletions, 1)
        estimated == SumOver(RecentCompletions, 2)
    IN IF Stalled THEN 0 - 1
       ELSE IF RecentCompletions = {} THEN 0
       ELSE IF 10 * actual < 8 * estimated THEN 1
       ELSE IF 10 * actual > 13 * estimated THEN 0 - 1
       ELSE 0

FreshReport == em.reported # None /\ em.clock - em.reported_ts <= USER_REPORTED_DECAY

C24_WitnessReported ==
    /\ last.op = "compute_energy"
    /\ FreshReport
    /\ DOMAIN em.completions # {}
    /\ last.energy.level # Max(1, Min(5, em.curve[HourOf(em.clock) + 1] + RatioAdjustment))

\* C25: no message published on a channel the relay listens to terminates the
\* listener of that channel: after any message, malformed or not, both
\* listeners are still running.
C25_ListenersSurvive == relay.listening = ListenerChannels

\* the field ranges of a task
FieldsInRange(t) ==
    /\ t.energy_cost \in 1..5
    /\ t.cognitive_load \in 1..5
    /\ t.priority \in 0..3
    /\ t.estimated_duration > 0

\* C26: a request with invalid input leaves the buffer and the scheduler
\* unchanged, so every stored task has energy_cost and cognitive_load in
\* [1,5], priority in {0,1,2,3} and estimated_duration > 0.
C26_StoredFieldsInRange == \A id \in DOMAIN tasks : FieldsInRange(tasks[id])

\* start, complete and delete of an unknown id change nothing
UnknownIdRejected ==
    [][steps' # steps /\ last'.op \in {"start_task", "complete_task", "delete_task"}
         /\ last'.id \notin DOMAIN tasks
       => last'.ret = NoTask /\ tasks' = tasks /\ sts' = sts /\ active' = active
            /\ backlog' = backlog /\ buckets' = buckets]_vars

\* C27: the duration plan_day reports for a selected task is
\* max(1, floor(estimated_duration * estimation_bias)) of the stored backlog
\* task, an integer never less than 1 (estimation_bias counted in halves).
C27_BiasedDurationAtLeastOne ==
    [][steps' # steps /\ last'.op = "plan_day"
       => \A i \in 1..Len(last'.swapped_in) :
            LET t == last'.swapped_in[i]
            IN /\ t.task_id \in DOMAIN tasks
               /\ t.estimated_duration
                    = Max(1, (tasks[t.task_id].estimated_duration * last'.b) \div 2)]_vars

\* the ids of the tasks plan_day returned
SelectedIds(l) == {l.swapped_in[i].task_id : i \in 1..Len(l.swapped_in)}

\* the ids queued in a scheduler
QueuedIds(s) == UNION {{s.queues[p][i].task.task_id : i \in 1..Len(s.queues[p])} : p \in Priority}

\* C28: after plan_day exactly the selected tasks went from backlog to
\* active, every other stored task (the unselected backlog tasks among them)
\* is stored as before, and the scheduler returned is a fresh one holding
\* exactly the selected tasks, as many as were selected.
C28_PlanDayFrame ==
    [][steps' # steps /\ last'.op = "plan_day"
       => /\ DOMAIN tasks' = DOMAIN tasks
          /\ \A id \in SelectedIds(last') :
                /\ id \in backlog /\ tasks[id].status = BACKLOG
                /\ id \in active' /\ id \notin backlog' /\ tasks'[id].status = ACTIVE
          /\ \A id \in DOMAIN tasks \ SelectedIds(last') :
                /\ tasks'[id] = tasks[id]
                /\ (id \in backlog') = (id \in backlog)
                /\ (id \in active') = (id \in active)
          /\ QueuedIds(sts') = SelectedIds(last')
          /\ total_count(sts') = Len(last'.swapped_in)
          /\ Cardinality(SelectedIds(last')) = Len(last'.swapped_in)
          /\ sts'.current = NoTask /\ sts'.delegation_queue = {}]_vars

\* plan_day selected one backlog task and left another in the backlog
C28_Witness ==
    /\ last.op = "plan_day"
    /\ Len(last.swapped_in) >= 1
    /\ \E id \in backlog \ SelectedIds(last) : tasks[id].status = BACKLOG
    /\ total_count(sts) = Len(last.swapped_in)

\* C29: handle_disruption with freed_minutes = 0 called twice in a row on an
\* unchanged buffer (and at the same time) leaves the same ordered schedule
\* after the second call as after the first, ties on class and urgency
\* included.
C29_ReorderTwiceSameSchedule ==
    [][/\ last.op = "handle_disruption" /\ last.m = 0
       /\ steps' # steps
       /\ last'.op = "handle_disruption" /\ last'.m = 0
       /\ now' = now /\ tasks' = tasks /\ active' = active /\ backlog' = backlog
       => \A e \in 1..5 : get_ordered_schedule(sts', e) = get_ordered_schedule(sts, e)]_vars

\* no two entries of one class have the same sort key
NoTies(s) ==
    \A p \in Priority : \A i, j \in 1..Len(s.queues[p]) :
        i # j => s.queues[p][i].sort_key # s.queues[p][j].sort_key

\* without ties the second reorder gives the schedule of the first
ReorderTwiceSameWithoutTies ==
    [][/\ last.op = "handle_disruption" /\ last.m = 0
       /\ steps' # steps
       /\ last'.op = "handle_disruption" /\ last'.m = 0
       /\ now' = now /\ tasks' = tasks /\ active' = active /\ backlog' = backlog
       /\ NoTies(sts)
       => \A e \in 1..5 : get_ordered_schedule(sts', e) = get_ordered_schedule(sts, e)]_vars

\* ret holds the tasks of list as enqueue left them, each exactly once
IsPermutation(ret, list) ==
    /\ Len(ret) = Len(list)
    /\ \E f \in Orders(1..Len(list)) : \A i \in 1..Len(list) : ret[i] = classified(list[f[i]])

\* by class, and within a class by descending urgency
ClassThenUrgency(ret) ==
    \A i, j \in 1..Len(ret) :
        i < j => \/ ret[i].priority < ret[j].priority
                 \/ /\ ret[i].priority = ret[j].priority
                    /\ deadline_urgency(ret[i]) >= deadline_urgency(ret[j])

\* C30: on an empty scheduler enqueue_batch(list) followed by
\* get_ordered_schedule(5) returns a permutation of list ordered by class P0
\* to P3 and within a class by descending deadline_urgency, and the call
\* leaves the queues as they were.
C30_BatchScheduleOrdered ==
    [][last'.op = "get_ordered_schedule" /\ last'.e = 5
       => /\ IsPermutation(last'.ret, last'.list)
          /\ ClassThenUrgency(last'.ret)
          /\ sts' = sts]_vars

\* the same for lists of tasks whose energy_cost is at most 5
BatchScheduleOrderedInRange ==
    [][/\ last'.op = "get_ordered_schedule" /\ last'.e = 5
       /\ \A i \in 1..Len(last'.list) : FieldsInRange(last'.list[i])
       => /\ IsPermutation(last'.ret, last'.list)
          /\ ClassThenUrgency(last'.ret)
          /\ sts' = sts]_vars

\* ret holds the tasks of the queue, each once, with status delegated
DrainedFrom(ret, queue) ==
    /\ Len(ret) = Len(queue)
    /\ \E f \in Orders(1..Len(queue)) :
          \A i \in 1..Len(queue) : ret[i] = [queue[f[i]].task EXCEPT !.status = DELEGATED]

\* C31: auto_delegate_p3(energy_level) with energy_level <= 2 returns exactly
\* the tasks of the P3 queue, each with status delegated, empties the P3
\* queue and leaves the P0-P2 queues as they were; above 2 it returns the
\* empty list and changes no queue and no task.
C31_AutoDelegateFrame ==
    [][last'.op = "auto_delegate_p3"
       => /\ last'.e <= 2 =>
                /\ DrainedFrom(last'.ret, sts.queues[3])
                /\ sts'.queues[3] = <<>>
                /\ \A p \in 0..2 : sts'.queues[p] = sts.queues[p]
          /\ last'.e > 2 =>
                /\ last'.ret = <<>>
                /\ sts' = sts
          /\ tasks' = tasks]_vars

\* two P3 tasks were drained at low energy while another class was queued
C31_Witness ==
    /\ last.op = "auto_delegate_p3"
    /\ last.e <= 2
    /\ Len(last.ret) = 2
    /\ last.ret[1].task_id # last.ret[2].task_id
    /\ sts.queues[3] = <<>>
    /\ \E p \in 0..2 : sts.queues[p] # <<>>

\* the call above the threshold with P3 tasks queued
C31_WitnessNoOp ==
    /\ last.op = "auto_delegate_p3"
    /\ last.e > 2
    /\ sts.queues[3] # <<>>

\* the candidates find_swap_candidates can return on the present buffer
SwapInCandidates(m, e) == find_swap_candidates(Store, m, e, PeakHours)

\* C32: in every buffer state the scheduler operations reach,
\* find_swap_candidates(m, e) returns only tasks that are stored with status
\* backlog, with estimated_duration <= m and energy_cost <= e.
C32_SwapInCandidatesFit ==
    \A m \in MinuteInputs, e \in EnergyLevels :
        \A c \in SwapInCandidates(m, e) : \A i \in 1..Len(c) :
            /\ c[i].task_id \in DOMAIN tasks
            /\ tasks[c[i].task_id] = c[i]
            /\ c[i].status = BACKLOG
            /\ c[i].estimated_duration <= m
            /\ c[i].energy_cost <= e

\* after a swap-in two backlog tasks are stored, one a candidate for 15
\* minutes at energy 2 and the other left out for its duration and cost
C32_Witness ==
    /\ last.op = "handle_disruption"
    /\ \E c \in SwapInCandidates(15, 2) : Len(c) >= 1
    /\ \E id \in DOMAIN tasks :
          /\ tasks[id].status = BACKLOG
          /\ tasks[id].energy_cost > 2
          /\ \A c \in SwapInCandidates(15, 2) : \A i \in 1..Len(c) : c[i].task_id # id

\* the peak_alignment term as a function of the hour and the cognitive load
PeakAlignment(task, peak_hours) ==
    IF CurrentHour \in peak_hours
    THEN IF task.cognitive_load >= 4 THEN 8
         ELSE IF task.cognitive_load <= 2 THEN 3 ELSE 5
    ELSE 5

\* C33: when plan_day scores the backlog, the peak_alignment term of a task
\* is 8 (cognitive_load >= 4) or 3 (cognitive_load <= 2) only when the
\* current hour is in peak_hours, and 5 for every task otherwise.
C33_PeakAlignmentOnlyAtPeak ==
    [][steps' # steps /\ last'.op = "plan_day"
       => \A id \in backlog :
             id \in DOMAIN tasks /\ tasks[id].status = BACKLOG
             => peak_score(tasks[id], PeakHours) = PeakAlignment(tasks[id], PeakHours)]_vars

\* in the peak window the term is as described
PeakAlignmentAtPeak ==
    [][steps' # steps /\ last'.op = "plan_day" /\ CurrentHour \in PeakHours
       => \A id \in backlog :
             id \in DOMAIN tasks /\ tasks[id].status = BACKLOG
             => peak_score(tasks[id], PeakHours) = PeakAlignment(tasks[id], PeakHours)]_vars

\* the ids of the stored tasks on today's schedule
ScheduledIds == {id \in DOMAIN tasks : tasks[id].status \in {ACTIVE, IN_PROGRESS}}

\* C34: whenever no relay handler is running, so after each of them has
\* returned, the scheduler queues hold exactly the ids of the stored tasks
\* that are active or in_progress, each once.
C34_QueuesMatchStore ==
    relay.co.kind = "none"
    => /\ QueuedIds(sts) = ScheduledIds
       /\ total_count(sts) = Cardinality(ScheduledIds)

\* the number of calls of the external executor made for a draft
ExecutionsOf(d) == Cardinality({i \in 1..Len(gw.calls) : gw.calls[i] = d})

\* C35: the external action of a draft is executed at most once: an approve
\* or reject message that names a draft whose status is already executed,
\* failed or rejected leaves the draft as it is and calls nothing.
C35_ExecutedAtMostOnce ==
    \A i \in 1..Len(DraftIds) : ExecutionsOf(DraftIds[i]) <= 1

\* a poll whose messages all name drafts that were pending leaves none of
\* them executed twice
PendingDraftsExecutedOnce ==
    [][/\ last'.op = "poll_approvals"
       /\ \A i, j \in 1..Len(gw.approvals) :
             i # j => gw.approvals[i].draft_id # gw.approvals[j].draft_id
       /\ \A i \in 1..Len(gw.approvals) :
             gw.approvals[i].draft_id \in DOMAIN gw.drafts
             => gw.drafts[gw.approvals[i].draft_id].status = PENDING
       => \A i \in 1..Len(DraftIds) :
             ExecutionsOf(DraftIds[i])' <= Max(1, ExecutionsOf(DraftIds[i]))]_vars

\* C36: a poll cycle in which the calendar source fails emits no calendar
\* event and leaves the cached calendar snapshot as it was, so the next
\* poll is compared against the last snapshot that was observed.
C36_FailedPollKeepsSnapshot ==
    [][last'.op = "poll_calendar_failed" /\ sn'.poll_count # sn.poll_count
       => /\ last'.events = <<>>
          /\ sn'.outbox = sn.outbox
          /\ sn'.calendar = sn.calendar]_vars

\* a failure raised before the request is made leaves the snapshot alone
UncaughtFailureKeepsSnapshot ==
    [][last'.op = "poll_calendar_failed" /\ ~last'.caught /\ sn'.poll_count # sn.poll_count
       => /\ last'.events = <<>>
          /\ sn'.outbox = sn.outbox
          /\ sn'.calendar = sn.calendar]_vars

\* C37: when sending a detected change fails, the cached snapshot is not
\* advanced past that change, so that a later poll detects and sends it
\* again and every change reaches the detector at least once.
C37_UnsentChangeStaysUncached ==
    [][last'.op = "poll_calendar_send_failed" /\ sn'.poll_count # sn.poll_count
       => sn'.calendar = sn.calendar]_vars

\* C38: with requests handled concurrently, every client is sent the
\* updated_schedule messages in the order of the mutations, and once the
\* handlers have returned the last one a connected client holds is the
\* stored schedule
UpdatesOf(c) ==
    LET is_update(m) == m.type = "updated_schedule" IN SelectSeq(relay.inbox[c], is_update)

Connected == {relay.connections[i] : i \in 1..Len(relay.connections)} \ relay.closed

HandlersReturned == \A k \in 1..Len(relay.handlers) : relay.handlers[k].phase = "done"

C38_UpdatesInMutationOrder ==
    \A c \in RelayClients :
        /\ \A i, j \in 1..Len(UpdatesOf(c)) : i < j => UpdatesOf(c)[i].rid <= UpdatesOf(c)[j].rid
        /\ (HandlersReturned /\ c \in Connected /\ UpdatesOf(c) # <<>>)
              => UpdatesOf(c)[Len(UpdatesOf(c))].tasks = ActiveIds(Store)

\* as long as no peer has gone away the updates do arrive in order
UpdatesInOrderWhileNoPeerGone == relay.closed = {} => C38_UpdatesInMutationOrder

\* the last update a connected client holds, once the handlers have returned
LastUpdateIsStored ==
    \A c \in RelayClients :
        (HandlersReturned /\ c \in Connected /\ UpdatesOf(c) # <<>>)
            => UpdatesOf(c)[Len(UpdatesOf(c))].tasks = ActiveIds(Store)

\* C39: when the loop of a broadcast is over, every client that has been
\* connected for the whole of it holds the message exactly once, whatever
\* happened to the other clients meanwhile
C39_BroadcastReachesEveryClient ==
    (relay.co.kind = "disruption" /\ relay.co.i >= Len(relay.connections)) =>
        \A c \in relay.co.whole :
            Cardinality({i \in 1..Len(relay.inbox[c]) :
                            ReceivedAt(c, i, relay.co.msg.type, relay.co.rid)}) = 1

\* C40: whenever a client is connected a heartbeat task exists that has not
\* finished, also for a client that connects while the cancellation of the
\* previous task is pending
C40_HeartbeatLiveWhileConnected ==
    relay.connections # <<>> => ~heartbeat_done(relay.heartbeat)

\* without a pending cancellation at connect the task is there
HeartbeatLiveWithoutPendingCancel ==
    [][(last'.op = "connect" /\ ~relay.heartbeat.cancelling)
          => ~heartbeat_done(relay'.heartbeat) /\ ~relay'.heartbeat.cancelling]_vars


====
